---- MODULE Spec2Model ----
(***************************************************************************)
(* Model of the multi-session validation schedulers of riftvanta/numbers.  *)
(*                                                                         *)
(*   Part I   OptimizedWhatsAppValidator (src/multi_whatsapp_optimized.js) *)
(*            shared work queue, K concurrent checks per session worker.   *)
(*   Part II  SafeWhatsAppValidator (src/unnamed/part_003)                 *)
(*            static chunks, hourly rate limit, ban escalation.            *)
(*   Part III WhatsAppValidator (src/unnamed/part_000)                     *)
(*            one session, resumable run with a progress checkpoint.       *)
(*   Part IV  initialize() of the multi-session validators: session        *)
(*            startup and the wait for each client's 'ready'.              *)
(*   Part V   validateNumber: the WhatsApp identifier computed from a      *)
(*            number, and the result record that carries it.               *)
(*   Part VI  processNumber of OptimizedWhatsAppValidator on one item: the  *)
(*            retry loop and the delays between its attempts.              *)
(*   Part VII distributeWork(array, chunks) of the chunked validators.       *)
(*   Part VIII MultiWhatsAppValidator (src/unnamed/part_002)                 *)
(*            static chunks, results gathered per session.                 *)
(*   Part IX  SafeWhatsAppValidator's master file (src/unnamed/part_003):   *)
(*            the verifiedNumbers set and the rows appended per check.     *)
(*   Part X   WhatsAppAggregator (src/aggregator.js): the verified set and  *)
(*            the rows aggregateResults appends to the master file.        *)
(*                                                                         *)
(* JavaScript runs one continuation at a time: the code between two awaits *)
(* is one atomic action of the model.                                      *)
(***************************************************************************)
EXTENDS Integers, Sequences, FiniteSets, TLC

\* ------------------------------------------------------------------ bounds
MaxItems == 3
MaxSessions == 2
MaxConcurrent == 2
MaxPerHour == 2
MaxBatchSize == 2
MaxTicks == 3
MaxNumbers == 21
MaxPool == 3
BreakEvery == 4
MaxLen == 4
MaxRetries == 6
MaxArray == 6
MaxChunks == 4
MaxRows == 2
MaxAggregations == 3

\* ------------------------------------------------------- program constants
DefaultMaxRetries == 2
HourMs == 3600000
DefaultCheckDelay == 600
DefaultBreakDuration == 5000
DefaultSessionDelay == 2000
BreakJitterMs == 2000
ExtendedBreakEvery == 200
ExtendedBreakMs == 10000
CheckpointEvery == 10
FlushCount == 10
MainBatchSize == 50
RetryDelayMs == 100

VARIABLES
    \* ---- Part I: OptimizedWhatsAppValidator
    options,          \* this.options: sessions, concurrentPerSession, maxRetries
    numbers,          \* the list handed to validateBatch (item i has key numbers[i])
    vbpc,             \* validateBatch: "start" | "running" | "returned"
    workQueue,        \* this.workQueue (items, by their index in numbers)
    processing,       \* this.processing (a JS Set: holds item keys)
    results,          \* this.results
    stats,            \* this.stats: total, processed, verified, errors
    sess,             \* per session: checked, verified, errors, lastError
    concurrentTasks,  \* per worker: its concurrentTasks array of processNumber calls
    wpc,              \* per worker: the await it is suspended at
    sweepIdx,         \* per worker: index i of the "remove completed tasks" loop
    taken,            \* history: items each worker has shifted from the queue
    \* ---- Part II: SafeWhatsAppValidator
    sopt,             \* this.options: sessions, maxChecksPerHour, batchSize, ...
    snumbers,         \* the list handed to validateBatch
    srun,             \* vb: validateBatch, main: main() ("off" when not run)
    now,              \* Date.now(), in ms
    ticks,            \* history: clock advances so far
    ssess,            \* per session: its fields and its validateSessionChunk frame
    sresults,         \* this.results
    sstats,           \* this.stats: checked, verified, errors
    ssaved,           \* the results file written by saveResults
    sadmitted,        \* history: per session, the times checkRateLimit let a check pass
    \* ---- Part III: WhatsAppValidator
    cfg,              \* this.config.batchSize, and whether main() drives the run
    vnumbers,         \* the rows loaded from the CSV (row i holds number vnumbers[i])
    vrun,             \* validateBatch/main frame: pc, i, startIndex
    vresults,         \* the local results array of validateBatch
    progress,         \* this.progress: lastIndex, totalChecked
    progressFile,     \* the progress file: exists, lastIndex, totalChecked
    sinkFile,         \* rows of validated_numbers.csv
    outputFile,       \* validated_<timestamp>.csv: written, rows
    report,           \* validation_report.json: written, total, registered, errors
    vchecked,         \* history: the indexes validateNumber was called for
    \* ---- Part IV: initialize()
    iopt,             \* this.options.sessions, and which validator's initialize() runs
    irun,             \* initialize(): pc, and i of its for loop
    isess,            \* per session: st of initializeSession, session.ready
    \* ---- Part V: validateNumber on one number
    rawNumber,        \* the raw number, a string
    nrun,             \* validateNumber: pc, and its local whatsappId
    nresult,          \* the record validateNumber returned
    nagain,           \* the identifier computed from the returned identifier
    nexport,          \* the phone_number csv_to_xlsx wrote for the number's row
    \* ---- Part VI: processNumber on one item
    popt,             \* this.options.maxRetries
    prun,             \* processNumber: pc, and its local retries
    pwaits,           \* history: the retry delays armed, in order
    psess,            \* the session: checked, verified, errors, lastError
    presult,          \* what processNumber returned
    \* ---- Part VII: distributeWork
    dwarg,            \* the arguments: array, chunks
    dwrun,            \* pc of the call
    dwres,            \* the array of chunks it returned
    \* ---- Part VIII: MultiWhatsAppValidator
    mopt,             \* this.options: sessions, batchSize
    mnumbers,         \* the list handed to validateBatch (item i is numbers[i - 1])
    mrun,             \* pc of validateBatch
    msess,            \* per session: its validateSessionChunk frame and counters
    mresults,         \* this.results
    mstats,           \* this.stats: total, checked, verified, errors
    \* ---- Part IX: the master file of SafeWhatsAppValidator
    fnumbers,         \* the numbers handed to validateBatch (may repeat)
    fsessions,        \* this.options.sessions
    frun,             \* pc of validateBatch
    fsess,            \* per session: its chunk, position and the await it is at
    verifiedNumbers,  \* this.verifiedNumbers
    masterFile,       \* the number column of the rows of this.masterFile
    \* ---- Part X: WhatsAppAggregator
    aggVerifiedNumbers, \* this.verifiedNumbers
    aggMasterFile,      \* the number column of the rows of this.masterFile
    aggLast,            \* the last aggregateResults call: file, rows added, result
    aggRuns,            \* aggregateResults calls so far
    aggLoaded           \* loadExistingNumbers has run on this instance

ovars == <<options, numbers, vbpc, workQueue, processing, results, stats, sess,
           concurrentTasks, wpc, sweepIdx, taken>>

svars == <<sopt, snumbers, srun, now, ticks, ssess, sresults, sstats, ssaved, sadmitted>>

bvars == <<cfg, vnumbers, vrun, vresults, progress, progressFile, sinkFile,
           outputFile, report, vchecked>>

ivars == <<iopt, irun, isess>>

nvars == <<rawNumber, nrun, nresult, nagain, nexport>>

pvars == <<popt, prun, pwaits, psess, presult>>

dvars == <<dwarg, dwrun, dwres>>

mvars == <<mopt, mnumbers, mrun, msess, mresults, mstats>>

fvars == <<fnumbers, fsessions, frun, fsess, verifiedNumbers, masterFile>>

avars == <<aggVerifiedNumbers, aggMasterFile, aggLast, aggRuns, aggLoaded>>

vars == <<ovars, svars, bvars, ivars, nvars, pvars, dvars, mvars, fvars, avars>>

\* what a step of one validator leaves alone: the state of the others
notOpt == <<svars, bvars, ivars, nvars, pvars, dvars, mvars, fvars, avars>>
notSafe == <<ovars, bvars, ivars, nvars, pvars, dvars, mvars, fvars, avars>>
notBasic == <<ovars, svars, ivars, nvars, pvars, dvars, mvars, fvars, avars>>
notStartup == <<ovars, svars, bvars, nvars, pvars, dvars, mvars, fvars, avars>>
notNumber == <<ovars, svars, bvars, ivars, pvars, dvars, mvars, fvars, avars>>
notRetry == <<ovars, svars, bvars, ivars, nvars, dvars, mvars, fvars, avars>>
notDistribute == <<ovars, svars, bvars, ivars, nvars, pvars, mvars, fvars, avars>>
notMulti == <<ovars, svars, bvars, ivars, nvars, pvars, dvars, fvars, avars>>
notMaster == <<ovars, svars, bvars, ivars, nvars, pvars, dvars, mvars, avars>>
notAggregator == <<ovars, svars, bvars, ivars, nvars, pvars, dvars, mvars, fvars>>

Min(a, b) == IF a < b THEN a ELSE b

\* ------------------------------------------------------------ Part I: helpers

\* The lists handed to validateBatch: rows loaded from a CSV or generated, that
\* is distinct (truthy) objects; the key of a row is its identity, its index.
InputLists == { [i \in 1..n |-> i] : n \in 0..MaxItems }

Sessions == 0 .. options.sessions - 1

\* one processNumber call: the item it was given, its retries counter, where it
\* is suspended ("calling": awaiting isRegisteredUser, "backoff": awaiting the
\* retry delay, "done": returned) and, as history, the transport calls it issued
Task(item, retries, st, calls) ==
    [item |-> item, retries |-> retries, st |-> st, calls |-> calls]

\* processNumber up to its first await: with retries < maxRetries the transport
\* call is issued; otherwise the while loop is skipped and the call returns.
StartTask(item) ==
    IF 0 < options.maxRetries THEN Task(item, 0, "calling", 1) ELSE Task(item, 0, "done", 0)

\* this.workQueue.shift()
ShiftKeep(q) == [number |-> Head(q), rest |-> q]
Shift(q) == [number |-> Head(q), rest |-> Tail(q)]

\* concurrentTasks.length < this.options.concurrentPerSession
SlotFreeAlways(tasks) == TRUE
SlotFree(tasks) == Len(tasks) < options.concurrentPerSession

\* the state a worker reads and writes in one synchronous stretch
Cur == [queue |-> workQueue, processing |-> processing, tasks |-> concurrentTasks,
        pc |-> wpc, taken |-> taken]

\* this.processing.add(number)
ProcessingAddNothing(set, number) == set
ProcessingAdd(set, number) == set \cup {number}

\* "Fill up concurrent slots" (the inner while loop of sessionWorker)
RECURSIVE FillSlots(_, _)
FillSlots(st, s) ==
    IF SlotFree(st.tasks[s]) /\ Len(st.queue) > 0
    THEN LET sh == Shift(st.queue)
             t  == StartTask(sh.number)
         IN  FillSlots([st EXCEPT !.queue = sh.rest,
                                  !.processing = ProcessingAdd(@, numbers[sh.number]),
                                  !.tasks[s] = Append(@, t),
                                  !.taken[s] = @ + 1], s)
    ELSE st

\* while (this.workQueue.length > 0 || this.processing.size > 0)
LoopCond(st) == Len(st.queue) > 0 \/ st.processing # {}

AllSettled(tasks) == \A i \in 1..Len(tasks) : tasks[i].st = "done"
AnySettled(tasks) == \E i \in 1..Len(tasks) : tasks[i].st = "done"

\* Promise.race(concurrentTasks) is settled
RaceReadyAll(tasks) == AllSettled(tasks)
RaceReady(tasks) == AnySettled(tasks)

\* sessionWorker from the loop test to its next await
LoopIteration(st, s) ==
    IF ~LoopCond(st)
    THEN [st EXCEPT !.pc[s] = IF Len(st.tasks[s]) > 0 THEN "final" ELSE "done"]
    ELSE LET f == FillSlots(st, s)
         IN  IF Len(f.tasks[s]) > 0 THEN [f EXCEPT !.pc[s] = "race"]
             ELSE IF Len(f.queue) = 0 /\ f.processing # {} THEN [f EXCEPT !.pc[s] = "idle"]
             ELSE [f EXCEPT !.pc[s] = "pause"]

\* the tail of one loop round: "Small delay to prevent CPU overload"
RoundEnd(st, s) ==
    IF Len(st.queue) > 0 THEN [st EXCEPT !.pc[s] = "pause"] ELSE LoopIteration(st, s)

\* for (const session of this.whatsappSessions) workers.push(this.sessionWorker(session))
RECURSIVE StartWorkers(_, _)
StartWorkers(st, s) ==
    IF s \in DOMAIN st.pc THEN StartWorkers(LoopIteration(st, s), s + 1) ELSE st

Commit(st) ==
    /\ workQueue' = st.queue
    /\ processing' = st.processing
    /\ concurrentTasks' = st.tasks
    /\ wpc' = st.pc
    /\ taken' = st.taken

\* this.results.push(result)
PushResultUnregistered(res, r) == Append(res, [r EXCEPT !.is_registered = FALSE])
PushResultAsError(res, r) == Append(res, [r EXCEPT !.status = "error"])
PushResultSuccessOnly(res, r) == IF r.status = "error" THEN res ELSE Append(res, r)
PushResult(res, r) == Append(res, r)

\* if (retries >= this.options.maxRetries)
RetriesExhausted(r) == r >= options.maxRetries

\* ------------------------------------------------------------ Part I: actions

OptInit ==
    /\ options \in [sessions : 1..MaxSessions,
                    concurrentPerSession : 1..MaxConcurrent,
                    maxRetries : 0..DefaultMaxRetries]
    /\ numbers \in InputLists
    /\ vbpc = "start"
    /\ workQueue = <<>>
    /\ processing = {}
    /\ results = <<>>
    /\ stats = [total |-> 0, processed |-> 0, verified |-> 0, errors |-> 0]
    /\ sess = [s \in Sessions |-> [checked |-> 0, verified |-> 0, errors |-> 0, lastError |-> FALSE]]
    /\ concurrentTasks = [s \in Sessions |-> <<>>]
    /\ wpc = [s \in Sessions |-> "new"]
    /\ sweepIdx = [s \in Sessions |-> 0]
    /\ taken = [s \in Sessions |-> 0]

\* validateBatch up to "await Promise.all(workers)"
ValidateBatch ==
    /\ vbpc = "start"
    /\ vbpc' = "running"
    /\ stats' = [stats EXCEPT !.total = Len(numbers)]
    /\ Commit(StartWorkers([Cur EXCEPT !.queue = [i \in 1..Len(numbers) |-> i]], 0))
    /\ UNCHANGED <<options, numbers, results, sess, sweepIdx>>
    /\ UNCHANGED notOpt

\* the mutant of CallResolve: the counters of every session are raised
CallResolveAllSessions(s, i, reg) ==
    /\ vbpc = "running"
    /\ i \in 1..Len(concurrentTasks[s])
    /\ concurrentTasks[s][i].st = "calling"
    /\ LET t == concurrentTasks[s][i] IN
       /\ results' = PushResult(results,
              [item |-> t.item, number |-> numbers[t.item], is_registered |-> reg,
               status |-> "success", session_id |-> s])
       /\ sess' = [o \in Sessions |->
                     [sess[o] EXCEPT !.checked = @ + 1,
                                     !.verified = IF reg THEN @ + 1 ELSE @]]
       /\ stats' = [stats EXCEPT !.processed = @ + 1,
                                 !.verified = IF reg THEN @ + 1 ELSE @]
       /\ processing' = processing \ {numbers[t.item]}
       /\ concurrentTasks' = [concurrentTasks EXCEPT ![s][i].st = "done"]
    /\ UNCHANGED <<options, numbers, vbpc, workQueue, wpc, sweepIdx, taken>>
    /\ UNCHANGED notOpt

\* isRegisteredUser resolves with the answer reg
CallResolve(s, i, reg) ==
    /\ vbpc = "running"
    /\ i \in 1..Len(concurrentTasks[s])
    /\ concurrentTasks[s][i].st = "calling"
    /\ LET t == concurrentTasks[s][i] IN
       /\ results' = PushResult(results,
              [item |-> t.item, number |-> numbers[t.item], is_registered |-> reg,
               status |-> "success", session_id |-> s])
       /\ sess' = [sess EXCEPT ![s].checked = @ + 1,
                               ![s].verified = IF reg THEN @ + 1 ELSE @]
       /\ stats' = [stats EXCEPT !.processed = @ + 1,
                                 !.verified = IF reg THEN @ + 1 ELSE @]
       /\ processing' = processing \ {numbers[t.item]}
       /\ concurrentTasks' = [concurrentTasks EXCEPT ![s][i].st = "done"]
    /\ UNCHANGED <<options, numbers, vbpc, workQueue, wpc, sweepIdx, taken>>
    /\ UNCHANGED notOpt

\* isRegisteredUser rejects (or building the id throws): the catch block
CallReject(s, i) ==
    /\ vbpc = "running"
    /\ i \in 1..Len(concurrentTasks[s])
    /\ concurrentTasks[s][i].st = "calling"
    /\ LET t == concurrentTasks[s][i]
           r == t.retries + 1
       IN  IF RetriesExhausted(r)
           THEN /\ sess' = [sess EXCEPT ![s].lastError = TRUE, ![s].errors = @ + 1]
                /\ stats' = [stats EXCEPT !.errors = @ + 1, !.processed = @ + 1]
                /\ results' = PushResult(results,
                       [item |-> t.item, number |-> numbers[t.item], is_registered |-> FALSE,
                        status |-> "error", session_id |-> s])
                /\ processing' = processing \ {numbers[t.item]}
                /\ concurrentTasks' = [concurrentTasks EXCEPT ![s][i] = Task(t.item, r, "done", t.calls)]
           ELSE /\ sess' = [sess EXCEPT ![s].lastError = TRUE]
                /\ concurrentTasks' = [concurrentTasks EXCEPT ![s][i] = Task(t.item, r, "backoff", t.calls)]
                /\ UNCHANGED <<stats, results, processing>>
    /\ UNCHANGED <<options, numbers, vbpc, workQueue, wpc, sweepIdx, taken>>
    /\ UNCHANGED notOpt

\* "Brief retry delay" is over: the while test and the next transport call
BackoffDone(s, i) ==
    /\ vbpc = "running"
    /\ i \in 1..Len(concurrentTasks[s])
    /\ concurrentTasks[s][i].st = "backoff"
    /\ LET t == concurrentTasks[s][i] IN
       IF t.retries < options.maxRetries
       THEN concurrentTasks' = [concurrentTasks EXCEPT ![s][i].st = "calling",
                                                       ![s][i].calls = @ + 1]
       ELSE concurrentTasks' = [concurrentTasks EXCEPT ![s][i].st = "done"]
    /\ UNCHANGED <<options, numbers, vbpc, workQueue, processing, results, stats, sess,
                   wpc, sweepIdx, taken>>
    /\ UNCHANGED notOpt

\* "await Promise.race(concurrentTasks)" resumes; the removal loop starts at the
\* last task and awaits isPromiseResolved of it
RaceWake(s) ==
    /\ vbpc = "running"
    /\ wpc[s] = "race"
    /\ RaceReady(concurrentTasks[s])
    /\ wpc' = [wpc EXCEPT ![s] = "sweep"]
    /\ sweepIdx' = [sweepIdx EXCEPT ![s] = Len(concurrentTasks[s])]
    /\ UNCHANGED <<options, numbers, vbpc, workQueue, processing, results, stats, sess,
                   concurrentTasks, taken>>
    /\ UNCHANGED notOpt

\* concurrentTasks.splice(i, 1)
Splice(tasks, i) == SubSeq(tasks, 1, i - 1) \o SubSeq(tasks, i + 1, Len(tasks))

\* one "await this.isPromiseResolved(concurrentTasks[i])": true for a settled
\* task, false (after 1 ms) for a pending one; after the last one, the round ends
SweepStep(s) ==
    /\ vbpc = "running"
    /\ wpc[s] = "sweep"
    /\ LET i     == sweepIdx[s]
           tasks == IF concurrentTasks[s][i].st = "done"
                    THEN Splice(concurrentTasks[s], i) ELSE concurrentTasks[s]
           st    == [Cur EXCEPT !.tasks[s] = tasks]
       IN  /\ sweepIdx' = [sweepIdx EXCEPT ![s] = i - 1]
           /\ IF i > 1 THEN Commit(st) ELSE Commit(RoundEnd(st, s))
    /\ UNCHANGED <<options, numbers, vbpc, results, stats, sess>>
    /\ UNCHANGED notOpt

\* "await this.delay(100)" (waiting for other sessions) is over
IdleDone(s) ==
    /\ vbpc = "running"
    /\ wpc[s] = "idle"
    /\ Commit(RoundEnd(Cur, s))
    /\ UNCHANGED <<options, numbers, vbpc, results, stats, sess, sweepIdx>>
    /\ UNCHANGED notOpt

\* "await this.delay(10)" is over
PauseDone(s) ==
    /\ vbpc = "running"
    /\ wpc[s] = "pause"
    /\ Commit(LoopIteration(Cur, s))
    /\ UNCHANGED <<options, numbers, vbpc, results, stats, sess, sweepIdx>>
    /\ UNCHANGED notOpt

\* "await Promise.all(concurrentTasks)" after the loop
FinalWait(s) ==
    /\ vbpc = "running"
    /\ wpc[s] = "final"
    /\ AllSettled(concurrentTasks[s])
    /\ wpc' = [wpc EXCEPT ![s] = "done"]
    /\ UNCHANGED <<options, numbers, vbpc, workQueue, processing, results, stats, sess,
                   concurrentTasks, sweepIdx, taken>>
    /\ UNCHANGED notOpt

\* "await Promise.all(workers)" resumes: statistics, return this.results
ValidateBatchReturn ==
    /\ vbpc = "running"
    /\ \A s \in Sessions : wpc[s] = "done"
    /\ vbpc' = "returned"
    /\ UNCHANGED <<options, numbers, workQueue, processing, results, stats, sess,
                   concurrentTasks, wpc, sweepIdx, taken>>
    /\ UNCHANGED notOpt

SessionIds == 0 .. MaxSessions - 1
Slots == 1 .. MaxConcurrent

OptNext ==
    \/ ValidateBatch
    \/ \E s \in Sessions, i \in Slots, reg \in BOOLEAN : CallResolve(s, i, reg)
    \/ \E s \in Sessions, i \in Slots : CallReject(s, i)
    \/ \E s \in Sessions, i \in Slots : BackoffDone(s, i)
    \/ \E s \in Sessions : RaceWake(s)
    \/ \E s \in Sessions : SweepStep(s)
    \/ \E s \in Sessions : IdleDone(s)
    \/ \E s \in Sessions : PauseDone(s)
    \/ \E s \in Sessions : FinalWait(s)
    \/ ValidateBatchReturn

\* ----------------------------------------------------------- Part II: helpers

SafeSessions == 0 .. sopt.sessions - 1

\* Math.random(), in thousandths
RandomSamples == {0, 999}

\* the mutant of DelayVariation: the random factor without its 0.8 base
DelayVariationNoBase(r) == (sopt.checkDelay * ((400 * r) \div 1000)) \div 1000

\* this.options.checkDelay * (0.8 + Math.random() * 0.4)
DelayVariation(r) == (sopt.checkDelay * (800 + (400 * r) \div 1000)) \div 1000

\* this.options.breakDuration + Math.random() * 2000
BreakTime(r) == sopt.breakDuration + (BreakJitterMs * r) \div 1000

\* Math.ceil(a / b)
CeilDiv(a, b) == (a + b - 1) \div b

\* distributeWork(array, chunks)[i]: array.slice(start, end), by item index
DistributeWork(len, chunks) ==
    LET chunkSize == CeilDiv(len, chunks)
    IN  [i \in 0 .. chunks - 1 |->
            LET start == i * chunkSize
                end   == Min(start + chunkSize, len)
            IN  [j \in 1 .. (IF end > start THEN end - start ELSE 0) |-> start + j]]

\* the session object after initializeSession, with the frame of its
\* validateSessionChunk call: numbers (chunk), i, processed, the await it is at;
\* destroyed: session.client.destroy() has been called
NewSession(s) ==
    [pc |-> "ready", chunk |-> <<>>, i |-> 0, processed |-> 0,
     ready |-> TRUE, checked |-> 0, verified |-> 0, errors |-> 0,
     totalChecksThisHour |-> 0, hourStartTime |-> s * DefaultSessionDelay,
     wakeAt |-> 0, stage |-> "none", rateWaits |-> 0, destroyed |-> FALSE]

\* await this.delay(ms) begun at time t; then names the code that follows it
Sleep(sr, until, then) == [sr EXCEPT !.pc = "sleep", !.wakeAt = until, !.stage = then]

\* checkRateLimit after its wait: reset, restart the window, count the check
AfterRateWaitNoReset(sr, t) ==
    [sr EXCEPT !.totalChecksThisHour = @ + 1, !.hourStartTime = t, !.pc = "call"]
AfterRateWait(sr, t) ==
    [sr EXCEPT !.totalChecksThisHour = 1, !.hourStartTime = t, !.pc = "call"]

\* the mutant of CheckRateLimit: the wait is a whole window
CheckRateLimitFullHour(sr, t) ==
    LET hourElapsed == t - sr.hourStartTime
        r1 == IF hourElapsed > HourMs
              THEN [sr EXCEPT !.totalChecksThisHour = 0, !.hourStartTime = t]
              ELSE sr
    IN  IF r1.totalChecksThisHour >= sopt.maxChecksPerHour
        THEN [r1 EXCEPT !.pc = "ratewait", !.wakeAt = t + HourMs,
                        !.rateWaits = @ + 1]
        ELSE [r1 EXCEPT !.totalChecksThisHour = @ + 1, !.pc = "call"]

\* checkRateLimit(session) called at time t, up to its await or its return; on
\* return validateNumber issues the transport call ("call")
CheckRateLimit(sr, t) ==
    LET hourElapsed == t - sr.hourStartTime
        r1 == IF hourElapsed > HourMs
              THEN [sr EXCEPT !.totalChecksThisHour = 0, !.hourStartTime = t]
              ELSE sr
    IN  IF r1.totalChecksThisHour >= sopt.maxChecksPerHour
        THEN [r1 EXCEPT !.pc = "ratewait", !.wakeAt = t + (HourMs - hourElapsed),
                        !.rateWaits = @ + 1]
        ELSE [r1 EXCEPT !.totalChecksThisHour = @ + 1, !.pc = "call"]

\* the for loop's i++ and test, then the next round's checkRateLimit
NextItem(sr, t) ==
    LET r == [sr EXCEPT !.i = @ + 1]
    IN  IF r.i < Len(r.chunk) THEN CheckRateLimit(r, t) ELSE [r EXCEPT !.pc = "done"]

\* "Shorter extended break every 200 checks"
ExtendedBreak(sr, t) ==
    IF sr.processed % ExtendedBreakEvery = 0 /\ sr.i < Len(sr.chunk) - 1
    THEN Sleep(sr, t + ExtendedBreakMs, "next")
    ELSE NextItem(sr, t)

\* the mutant of Break: the break is taken after the last item too
BreakAfterLast(sr, t, rb) ==
    IF sr.processed % sopt.batchSize = 0
    THEN Sleep(sr, t + BreakTime(rb), "extended")
    ELSE ExtendedBreak(sr, t)

\* "Take shorter breaks at intervals"
Break(sr, t, rb) ==
    IF sr.processed % sopt.batchSize = 0 /\ sr.i < Len(sr.chunk) - 1
    THEN Sleep(sr, t + BreakTime(rb), "extended")
    ELSE ExtendedBreak(sr, t)

\* "Delay between checks with variation"
CheckDelay(sr, t, rd, rb) ==
    IF sr.i < Len(sr.chunk) - 1
    THEN Sleep(sr, t + DelayVariation(rd), "break")
    ELSE Break(sr, t, rb)

\* validateSessionChunk after validateNumber returned result: push, count, pace
Record(sr, result, t, rd, rb) ==
    CheckDelay([sr EXCEPT !.checked = @ + 1, !.processed = @ + 1,
                          !.verified = IF result.is_registered THEN @ + 1 ELSE @],
               t, rd, rb)

\* the item validateSessionChunk is at
CurrentItem(sr) == sr.chunk[sr.i + 1]

Admit(s, new) ==
    sadmitted' = [sadmitted EXCEPT ![s] = IF new.pc = "call" THEN Append(@, now) ELSE @]

\* the mutant of Alive: a waiting session stalls every driver (a blocking sleep)
AliveNoWaiter ==
    /\ srun.main = "validate" /\ srun.vb = "running"
    /\ \A o \in SafeSessions : ssess[o].pc \notin {"ratewait", "sleep"}
Alive == srun.main = "validate" /\ srun.vb = "running"

\* ----------------------------------------------------------- Part II: actions

\* the state after "await validator.initialize()" in main
SafeInit ==
    /\ sopt \in [sessions : 1..MaxSessions, maxChecksPerHour : 1..MaxPerHour,
                 batchSize : 1..MaxBatchSize, checkDelay : {DefaultCheckDelay},
                 breakDuration : {DefaultBreakDuration}]
    /\ snumbers \in InputLists
    /\ srun = [vb |-> "start", main |-> "validate"]
    /\ now = (sopt.sessions - 1) * DefaultSessionDelay
    /\ ticks = 0
    /\ ssess = [s \in SafeSessions |-> NewSession(s)]
    /\ sresults = <<>>
    /\ sstats = [total |-> 0, checked |-> 0, verified |-> 0, errors |-> 0]
    /\ ssaved = [written |-> FALSE, rows |-> <<>>]
    /\ sadmitted = [s \in SafeSessions |-> <<>>]

\* time passes
Tick(d) ==
    /\ srun.main \notin {"exited", "interrupted"}
    /\ ticks < MaxTicks
    /\ now' = now + d
    /\ ticks' = ticks + 1
    /\ UNCHANGED <<sopt, snumbers, srun, ssess, sresults, sstats, ssaved, sadmitted>>
    /\ UNCHANGED notSafe

\* validateBatch up to "await Promise.all(validationPromises)": every session
\* with a non-empty chunk runs validateSessionChunk up to its first await
SafeValidateBatch ==
    /\ srun = [vb |-> "start", main |-> "validate"]
    /\ LET chunks == DistributeWork(Len(snumbers), sopt.sessions)
           begun  == [s \in SafeSessions |->
                        IF Len(chunks[s]) > 0
                        THEN CheckRateLimit([ssess[s] EXCEPT !.chunk = chunks[s]], now)
                        ELSE ssess[s]]
       IN  /\ ssess' = begun
           /\ sadmitted' = [s \in SafeSessions |->
                              IF begun[s].pc = "call" THEN <<now>> ELSE <<>>]
    /\ srun' = [srun EXCEPT !.vb = "running"]
    /\ sstats' = [sstats EXCEPT !.total = Len(snumbers)]
    /\ UNCHANGED <<sopt, snumbers, now, ticks, sresults, ssaved>>
    /\ UNCHANGED notSafe

\* the rate-limit wait of checkRateLimit is over
SafeRateWake(s) ==
    /\ Alive
    /\ ssess[s].pc = "ratewait"
    /\ now >= ssess[s].wakeAt
    /\ LET new == AfterRateWait(ssess[s], now)
       IN  ssess' = [ssess EXCEPT ![s] = new] /\ Admit(s, new)
    /\ UNCHANGED <<sopt, snumbers, srun, now, ticks, sresults, sstats, ssaved>>
    /\ UNCHANGED notSafe

\* isRegisteredUser resolves with the answer reg
SafeCallResolve(s, reg) ==
    /\ Alive
    /\ ssess[s].pc = "call"
    /\ LET result == [item |-> CurrentItem(ssess[s]), is_registered |-> reg,
                      status |-> "success", session_id |-> s]
       IN  /\ sresults' = Append(sresults, result)
           /\ \E rd \in RandomSamples, rb \in RandomSamples :
                LET new == Record(ssess[s], result, now, rd, rb)
                IN  ssess' = [ssess EXCEPT ![s] = new] /\ Admit(s, new)
    /\ UNCHANGED <<sopt, snumbers, srun, now, ticks, sstats, ssaved>>
    /\ UNCHANGED notSafe

\* isRegisteredUser rejects with a message that has no 'ban' or 'block' in it
SafeCallReject(s) ==
    /\ Alive
    /\ ssess[s].pc = "call"
    /\ LET result == [item |-> CurrentItem(ssess[s]), is_registered |-> FALSE,
                      status |-> "error", session_id |-> s]
       IN  /\ sresults' = Append(sresults, result)
           /\ \E rd \in RandomSamples, rb \in RandomSamples :
                LET new == Record([ssess[s] EXCEPT !.errors = @ + 1], result, now, rd, rb)
                IN  ssess' = [ssess EXCEPT ![s] = new] /\ Admit(s, new)
    /\ UNCHANGED <<sopt, snumbers, srun, now, ticks, sstats, ssaved>>
    /\ UNCHANGED notSafe

\* isRegisteredUser rejects with a 'ban' or 'block' message: validateNumber
\* rethrows, validateSessionChunk and Promise.all reject, validateBatch throws
\* into main's catch, and finally calls process.exit(0)
SafeCallBanned(s) ==
    /\ Alive
    /\ ssess[s].pc = "call"
    /\ ssess' = [ssess EXCEPT ![s].errors = @ + 1, ![s].pc = "failed"]
    /\ srun' = [vb |-> "rejected", main |-> "exited"]
    /\ UNCHANGED <<sopt, snumbers, now, ticks, sresults, sstats, ssaved, sadmitted>>
    /\ UNCHANGED notSafe

\* SIGINT while validateBatch is running: the handler closes readline and calls
\* process.exit(0)
SafeSigint ==
    /\ Alive
    /\ srun' = [srun EXCEPT !.main = "interrupted"]
    /\ UNCHANGED <<sopt, snumbers, now, ticks, ssess, sresults, sstats, ssaved, sadmitted>>
    /\ UNCHANGED notSafe

\* the client of session s emits 'disconnected': session.ready = false
SafeDisconnected(s) ==
    /\ srun.main = "validate"
    /\ ssess[s].ready
    /\ ssess' = [ssess EXCEPT ![s].ready = FALSE]
    /\ UNCHANGED <<sopt, snumbers, srun, now, ticks, sresults, sstats, ssaved, sadmitted>>
    /\ UNCHANGED notSafe

\* an "await this.delay(...)" of validateSessionChunk is over
SafeWake(s) ==
    /\ Alive
    /\ ssess[s].pc = "sleep"
    /\ now >= ssess[s].wakeAt
    /\ \E rb \in RandomSamples :
         LET new == CASE ssess[s].stage = "break"    -> Break(ssess[s], now, rb)
                      [] ssess[s].stage = "extended" -> ExtendedBreak(ssess[s], now)
                      [] OTHER                       -> NextItem(ssess[s], now)
         IN  ssess' = [ssess EXCEPT ![s] = new] /\ Admit(s, new)
    /\ UNCHANGED <<sopt, snumbers, srun, now, ticks, sresults, sstats, ssaved>>
    /\ UNCHANGED notSafe

\* every validateSessionChunk returned: statistics, return this.results
SafeValidateBatchReturn ==
    /\ Alive
    /\ \A s \in SafeSessions : ssess[s].pc \in {"ready", "done"}
    /\ srun' = [vb |-> "returned", main |-> "save"]
    /\ sstats' = [sstats EXCEPT
            !.checked = Len(sresults),
            !.verified = Cardinality({k \in 1..Len(sresults) : sresults[k].is_registered}),
            !.errors = Cardinality({k \in 1..Len(sresults) : sresults[k].status = "error"})]
    /\ UNCHANGED <<sopt, snumbers, now, ticks, ssess, sresults, ssaved, sadmitted>>
    /\ UNCHANGED notSafe

\* saveResults: csvWriter.writeRecords(this.results)
SafeSaveResults ==
    /\ srun.main = "save"
    /\ ssaved' = [written |-> TRUE, rows |-> sresults]
    /\ srun' = [srun EXCEPT !.main = "cleanup"]
    /\ UNCHANGED <<sopt, snumbers, now, ticks, ssess, sresults, sstats, sadmitted>>
    /\ UNCHANGED notSafe

\* cleanup: session.client.destroy() for every session; then finally:
\* process.exit(0)
SafeCleanup ==
    /\ srun.main = "cleanup"
    /\ ssess' = [s \in SafeSessions |-> [ssess[s] EXCEPT !.destroyed = TRUE]]
    /\ srun' = [srun EXCEPT !.main = "exited"]
    /\ UNCHANGED <<sopt, snumbers, now, ticks, sresults, sstats, ssaved, sadmitted>>
    /\ UNCHANGED notSafe

TickSteps == {1, HourMs - 1}

SafeNext ==
    \/ \E d \in TickSteps : Tick(d)
    \/ SafeValidateBatch
    \/ \E s \in SafeSessions : SafeRateWake(s)
    \/ \E s \in SafeSessions, reg \in BOOLEAN : SafeCallResolve(s, reg)
    \/ \E s \in SafeSessions : SafeCallReject(s)
    \/ \E s \in SafeSessions : SafeCallBanned(s)
    \/ \E s \in SafeSessions : SafeDisconnected(s)
    \/ SafeSigint
    \/ \E s \in SafeSessions : SafeWake(s)
    \/ SafeValidateBatchReturn
    \/ SafeSaveResults
    \/ SafeCleanup

\* ---------------------------------------------------------- Part III: helpers

\* the transport's answer for a number: a stand-in value of 0 is registered, 1 is
\* not registered, any other makes isRegisteredUser reject
IsRegisteredUser(number) ==
    CASE number = 0 -> "registered"
      [] number = 1 -> "unregistered"
      [] OTHER      -> "rejects"

\* validateNumber(number): the result object it returns (never throws)
ValidateNumber(number) ==
    IF IsRegisteredUser(number) = "rejects"
    THEN [number |-> number, is_registered |-> FALSE, status |-> "error"]
    ELSE [number |-> number, is_registered |-> IsRegisteredUser(number) = "registered",
          status |-> "success"]

\* the lists loaded from the CSV: every length, three answer patterns
BasicInputs == { [i \in 1..n |-> (i + p) % 3] : n \in 0..MaxNumbers, p \in 0..2 }

\* array.slice(-n)
LastN(arr, n) == SubSeq(arr, IF Len(arr) > n THEN Len(arr) - n + 1 ELSE 1, Len(arr))

\* results.slice(-10), the rows handed to saveResults(..., true)
FlushSliceAll(res) == res
FlushSlice(res) == LastN(res, FlushCount)

\* "for (let i = startIndex; ...": the index the loop starts at
LoopStartZero(startIndex) == 0
LoopStart(startIndex) == startIndex

\* (i + 1) % 10 === 0
CheckpointDue(i) == (i + 1) % CheckpointEvery = 0

\* the result of item i with its index as history
ResultAt(i) == [index |-> i] @@ ValidateNumber(vnumbers[i + 1])

\* the rows a run that had flushed every item below k left in the sink
FlushedBelow(k) == [j \in 1..k |-> ResultAt(j - 1)]

\* loadProgress(): the file's content, or the fresh record
LoadProgress(file) ==
    IF file.exists THEN [lastIndex |-> file.lastIndex, totalChecked |-> file.totalChecked]
    ELSE [lastIndex |-> 0, totalChecked |-> 0]

\* the loop test "i < numbers.length" and, when it holds, the call of
\* validateNumber for item i; otherwise validateBatch returns
EnterIteration(run, i) ==
    IF i < Len(vnumbers) THEN [run EXCEPT !.pc = "call", !.i = i]
    ELSE [run EXCEPT !.pc = "returned", !.i = i]

\* "Take a longer break every batch", then i++
AfterDelay(run) ==
    IF (run.i + 1) % cfg.batchSize = 0 THEN [run EXCEPT !.pc = "break"]
    ELSE EnterIteration(run, run.i + 1)

\* "Add delay between checks"
AfterCheckpoint(run) ==
    IF run.i < Len(vnumbers) - 1 THEN [run EXCEPT !.pc = "delay"]
    ELSE AfterDelay(run)

\* a step of the loop that ends at run: a new call is recorded in vchecked
Checked(run) ==
    vchecked' = IF run.pc = "call" THEN Append(vchecked, run.i) ELSE vchecked

\* generateReport(results): the summary
GenerateReport(res) ==
    [written |-> TRUE,
     total |-> Len(res),
     registered |-> Cardinality({ j \in 1..Len(res) : res[j].is_registered }),
     errors |-> Cardinality({ j \in 1..Len(res) : res[j].status = "error" })]

\* ---------------------------------------------------------- Part III: actions

\* the constructor (loadProgress) and, in main, the state after initialize()
\* and loadNumbersFromCSV(); the progress file is absent or as saveProgress
\* left it, at a multiple of CheckpointEvery, the sink holding the rows below it.
\* Without main, validateBatch is called with any startIndex.
BasicInit ==
    /\ cfg \in [batchSize : {BreakEvery, MainBatchSize}, viaMain : BOOLEAN]
    /\ vnumbers \in BasicInputs
    /\ progressFile \in
          { [exists |-> FALSE, lastIndex |-> 0, totalChecked |-> 0] } \cup
          { [exists |-> TRUE, lastIndex |-> k, totalChecked |-> k] :
              k \in { m \in 1..Len(vnumbers) : cfg.viaMain /\ m % CheckpointEvery = 0 } }
    /\ progress = LoadProgress(progressFile)
    /\ sinkFile = FlushedBelow(progress.lastIndex)
    /\ \E k \in 0..Len(vnumbers) :
          /\ cfg.viaMain => k = progress.lastIndex
          /\ vrun = [pc |-> "start", i |-> 0, startIndex |-> k,
                     sinkBase |-> Len(sinkFile), checkedBase |-> progress.totalChecked]
    /\ vresults = <<>>
    /\ outputFile = [written |-> FALSE, rows |-> <<>>]
    /\ report = [written |-> FALSE, total |-> 0, registered |-> 0, errors |-> 0]
    /\ vchecked = <<>>

\* validateBatch(numbers, startIndex) up to its first await
BValidateBatch ==
    /\ vrun.pc = "start"
    /\ LET run == EnterIteration(vrun, LoopStart(vrun.startIndex))
       IN  vrun' = run /\ Checked(run)
    /\ UNCHANGED <<cfg, vnumbers, vresults, progress, progressFile, sinkFile, outputFile, report>>
    /\ UNCHANGED notBasic

\* validateNumber returns: push, update progress, and on a checkpoint index
\* saveProgress() and the start of saveResults(results.slice(-10), true)
BCallSettles ==
    /\ vrun.pc = "call"
    /\ vresults' = Append(vresults, ResultAt(vrun.i))
    /\ progress' = [lastIndex |-> vrun.i + 1, totalChecked |-> progress.totalChecked + 1]
    /\ IF CheckpointDue(vrun.i)
       THEN /\ progressFile' = [exists |-> TRUE, lastIndex |-> progress'.lastIndex,
                                totalChecked |-> progress'.totalChecked]
            /\ vrun' = [vrun EXCEPT !.pc = "flush"]
            /\ UNCHANGED vchecked
       ELSE /\ UNCHANGED progressFile
            /\ LET run == AfterCheckpoint(vrun) IN vrun' = run /\ Checked(run)
    /\ UNCHANGED <<cfg, vnumbers, sinkFile, outputFile, report>>
    /\ UNCHANGED notBasic

\* csvWriter.writeRecords of saveResults(results.slice(-10), true) completes
BFlushDone ==
    /\ vrun.pc = "flush"
    /\ sinkFile' = sinkFile \o FlushSlice(vresults)
    /\ LET run == AfterCheckpoint(vrun) IN vrun' = run /\ Checked(run)
    /\ UNCHANGED <<cfg, vnumbers, vresults, progress, progressFile, outputFile, report>>
    /\ UNCHANGED notBasic

\* "await this.delay(this.config.checkDelay)" is over
BDelayDone ==
    /\ vrun.pc = "delay"
    /\ LET run == AfterDelay(vrun) IN vrun' = run /\ Checked(run)
    /\ UNCHANGED <<cfg, vnumbers, vresults, progress, progressFile, sinkFile, outputFile, report>>
    /\ UNCHANGED notBasic

\* "await this.delay(10000)" is over
BBreakDone ==
    /\ vrun.pc = "break"
    /\ LET run == EnterIteration(vrun, vrun.i + 1) IN vrun' = run /\ Checked(run)
    /\ UNCHANGED <<cfg, vnumbers, vresults, progress, progressFile, sinkFile, outputFile, report>>
    /\ UNCHANGED notBasic

\* main, "Save final results": only a run started at index 0 writes the output file
BSaveFinal ==
    /\ cfg.viaMain
    /\ vrun.pc = "returned"
    /\ outputFile' = IF vrun.startIndex = 0 THEN [written |-> TRUE, rows |-> vresults]
                     ELSE outputFile
    /\ vrun' = [vrun EXCEPT !.pc = "report"]
    /\ UNCHANGED <<cfg, vnumbers, vresults, progress, progressFile, sinkFile, report, vchecked>>
    /\ UNCHANGED notBasic

\* main, "Generate report"
BGenerateReport ==
    /\ vrun.pc = "report"
    /\ report' = GenerateReport(vresults)
    /\ vrun' = [vrun EXCEPT !.pc = "aggregate"]
    /\ UNCHANGED <<cfg, vnumbers, vresults, progress, progressFile, sinkFile, outputFile, vchecked>>
    /\ UNCHANGED notBasic

\* main, aggregation (or its failure, caught) and cleanup in the finally block
BFinish ==
    /\ vrun.pc = "aggregate"
    /\ vrun' = [vrun EXCEPT !.pc = "done"]
    /\ UNCHANGED <<cfg, vnumbers, vresults, progress, progressFile, sinkFile, outputFile,
                   report, vchecked>>
    /\ UNCHANGED notBasic

BasicNext ==
    \/ BValidateBatch
    \/ BCallSettles
    \/ BFlushDone
    \/ BDelayDone
    \/ BBreakDone
    \/ BSaveFinal
    \/ BGenerateReport
    \/ BFinish

\* ----------------------------------------------------------- Part IV: helpers

InitSessions == 0 .. iopt.sessions - 1

\* the session object as initializeSession creates it, its client not started
IdleSession == [st |-> "idle", ready |-> FALSE]

\* initializeSession(s) up to "await client.initialize()"
BeginSession(sessions, s) == [sessions EXCEPT ![s].st = "init"]

AllUp(sessions) == \A s \in InitSessions : sessions[s].st = "up"

\* initialize() resumes after initializeSession(s) returned.  SafeWhatsAppValidator
\* awaits the sessions one by one, with the stagger delay between two of them;
\* OptimizedWhatsAppValidator awaits Promise.all of them.
SessionReturned(sessions, s) ==
    IF iopt.variant = "safe"
    THEN IF s < iopt.sessions - 1 THEN [pc |-> "stagger", i |-> s]
         ELSE [pc |-> "returned", i |-> s]
    ELSE IF AllUp(sessions) THEN [pc |-> "returned", i |-> irun.i]
         ELSE irun

\* the test of "while (!session.ready)": the session is pushed when it is ready,
\* otherwise the loop awaits its delay
WaitLoop(s, ready) ==
    IF ready
    THEN LET sessions == [isess EXCEPT ![s].st = "up"]
         IN  isess' = sessions /\ irun' = SessionReturned(sessions, s)
    ELSE isess' = [isess EXCEPT ![s].st = "poll"] /\ UNCHANGED irun

\* ----------------------------------------------------------- Part IV: actions

\* a validator just constructed, initialize() not yet called
StartupInit ==
    /\ iopt \in [sessions : 1..MaxPool, variant : {"safe", "optimized"}]
    /\ irun = [pc |-> "start", i |-> 0]
    /\ isess = [s \in InitSessions |-> IdleSession]

\* initialize() up to its first await: the first session's startup
\* (SafeWhatsAppValidator) or the startup of every session (Optimized)
Initialize ==
    /\ irun.pc = "start"
    /\ irun' = [pc |-> "sessions", i |-> 0]
    /\ isess' = IF iopt.variant = "safe" THEN BeginSession(isess, 0)
                ELSE [s \in InitSessions |-> [isess[s] EXCEPT !.st = "init"]]
    /\ UNCHANGED iopt
    /\ UNCHANGED notStartup

\* "await client.initialize()" resolves; the wait for ready begins
ClientInitialized(s) ==
    /\ irun.pc = "sessions"
    /\ isess[s].st = "init"
    /\ WaitLoop(s, isess[s].ready)
    /\ UNCHANGED iopt
    /\ UNCHANGED notStartup

\* "await client.initialize()" rejects: initializeSession and initialize reject,
\* main's catch reports the error
ClientInitRejects(s) ==
    /\ irun.pc = "sessions"
    /\ isess[s].st = "init"
    /\ irun' = [irun EXCEPT !.pc = "failed"]
    /\ UNCHANGED <<iopt, isess>>
    /\ UNCHANGED notStartup

\* the client emits 'ready'
ReadyEvent(s) ==
    /\ irun.pc = "sessions"
    /\ isess[s].st \in {"init", "poll"}
    /\ ~isess[s].ready
    /\ isess' = [isess EXCEPT ![s].ready = TRUE]
    /\ UNCHANGED <<iopt, irun>>
    /\ UNCHANGED notStartup

\* the client emits 'disconnected' (SafeWhatsAppValidator has a handler for it)
DisconnectedEvent(s) ==
    /\ iopt.variant = "safe"
    /\ irun.pc \in {"sessions", "stagger"}
    /\ isess[s].ready
    /\ isess' = [isess EXCEPT ![s].ready = FALSE]
    /\ UNCHANGED <<iopt, irun>>
    /\ UNCHANGED notStartup

\* the delay of the wait loop is over: the loop tests session.ready again
ReadyPoll(s) ==
    /\ irun.pc = "sessions"
    /\ isess[s].st = "poll"
    /\ WaitLoop(s, isess[s].ready)
    /\ UNCHANGED iopt
    /\ UNCHANGED notStartup

\* "await this.delay(this.options.sessionDelay)" is over: the next session starts
StaggerDone ==
    /\ irun.pc = "stagger"
    /\ irun' = [pc |-> "sessions", i |-> irun.i + 1]
    /\ isess' = BeginSession(isess, irun.i + 1)
    /\ UNCHANGED iopt
    /\ UNCHANGED notStartup

\* the steps that do not depend on a client signalling ready
StartupSteps ==
    \/ Initialize
    \/ \E s \in InitSessions : ClientInitialized(s)
    \/ \E s \in InitSessions : ClientInitRejects(s)
    \/ \E s \in InitSessions : DisconnectedEvent(s)
    \/ \E s \in InitSessions : ReadyPoll(s)
    \/ StaggerDone

StartupNext ==
    \/ Initialize
    \/ \E s \in InitSessions : ClientInitialized(s)
    \/ \E s \in InitSessions : ClientInitRejects(s)
    \/ \E s \in InitSessions : ReadyEvent(s)
    \/ \E s \in InitSessions : DisconnectedEvent(s)
    \/ \E s \in InitSessions : ReadyPoll(s)
    \/ StaggerDone

\* ======================================================================
\* Part V: validateNumber, the identifier of a number and the result record
\* (src/unnamed/part_003 296-343; the same four lines compute the identifier
\* in part_000 116-119, part_002 208-211 and multi_whatsapp_optimized.js
\* 216-219).  A string is a sequence of one-character strings.
\* ======================================================================

\* \d of the regular expression
Digit == {"0", "1", "2", "3", "4", "5", "6", "7", "8", "9"}

\* the characters the raw numbers are made of: digits and separators
Chars == {"0", "2", "6", "7", "9", "+"}

Prefix962 == <<"9", "6", "2">>
SuffixCUs == <<"@", "c", ".", "u", "s">>

IsDigit(c) == c \in Digit

\* number.replace(/[^\d]/g, '')
FormattedNumber(str) == SelectSeq(str, IsDigit)

\* formattedNumber.startsWith('962')
StartsWith962(f) == Len(f) >= Len(Prefix962) /\ SubSeq(f, 1, Len(Prefix962)) = Prefix962

\* formattedNumber.substring(1)
Substring1(f) == SubSeq(f, 2, Len(f))

\* the mutant of WhatsappId: the first digit is dropped whatever the digits start with
WhatsappIdAlwaysDrop(str) == Prefix962 \o Substring1(FormattedNumber(str)) \o SuffixCUs

\* const whatsappId = formattedNumber.startsWith('962') ? ... : ...
WhatsappId(str) ==
    IF StartsWith962(FormattedNumber(str))
    THEN FormattedNumber(str) \o SuffixCUs
    ELSE Prefix962 \o Substring1(FormattedNumber(str)) \o SuffixCUs

\* all strings over Chars of length at most n
RECURSIVE StringsUpTo(_)
StringsUpTo(n) ==
    IF n = 0 THEN {<<>>}
    ELSE StringsUpTo(n - 1) \cup
         { Append(w, c) : w \in { v \in StringsUpTo(n - 1) : Len(v) = n - 1 }, c \in Chars }

\* local mobile numbers without the trunk 0: 7, a carrier digit, seven more digits
ExampleLocal == <<"7", "9", "1", "2", "3", "4", "5", "6", "7">>
LocalNumbers ==
    {ExampleLocal} \cup
    { <<"7", c>> \o <<b[1], b[2], b[3], b[4], b[5], b[6], b[7]>> :
        c \in {"7", "8", "9"}, b \in [1..7 -> {"0", "9"}] }

\* the numbers a CSV row can hold
NumberInputs ==
    StringsUpTo(MaxLen) \cup LocalNumbers \cup { <<"0">> \o l : l \in LocalNumbers }

NoExport == [done |-> FALSE, phone_number |-> <<>>]
NoResult == [status |-> "none", whatsapp_id |-> <<>>, is_registered |-> FALSE]

NumberInit ==
    /\ rawNumber \in NumberInputs
    /\ nrun = [pc |-> "start", whatsappId |-> <<>>]
    /\ nresult = NoResult
    /\ nagain = <<>>
    /\ nexport = NoExport

\* validateNumber up to the await of isRegisteredUser(whatsappId)
IdStart ==
    /\ nrun.pc = "start"
    /\ nrun' = [pc |-> "call", whatsappId |-> WhatsappId(rawNumber)]
    /\ UNCHANGED <<rawNumber, nresult, nagain, nexport>>
    /\ UNCHANGED notNumber

\* isRegisteredUser answers: the success record
IdCallResolves(reg) ==
    /\ nrun.pc = "call"
    /\ nresult' = [status |-> "success", whatsapp_id |-> nrun.whatsappId,
                   is_registered |-> reg]
    /\ nrun' = [nrun EXCEPT !.pc = "returned"]
    /\ UNCHANGED <<rawNumber, nagain, nexport>>
    /\ UNCHANGED notNumber

\* isRegisteredUser rejects: a ban/block error is rethrown, any other error
\* becomes the error record, whose whatsapp_id is ''
IdCallRejects(ban) ==
    /\ nrun.pc = "call"
    /\ IF ban
       THEN nrun' = [nrun EXCEPT !.pc = "threw"] /\ UNCHANGED nresult
       ELSE /\ nrun' = [nrun EXCEPT !.pc = "returned"]
            /\ nresult' = [status |-> "error", whatsapp_id |-> <<>>,
                           is_registered |-> FALSE]
    /\ UNCHANGED <<rawNumber, nagain, nexport>>
    /\ UNCHANGED notNumber

\* the identifier of a success record (with its @c.us, or its digits alone)
\* is given to the same four lines once more
IdAgain(withSuffix) ==
    /\ nrun.pc = "returned"
    /\ nresult.status = "success"
    /\ nagain' = WhatsappId(IF withSuffix THEN nresult.whatsapp_id
                            ELSE FormattedNumber(nresult.whatsapp_id))
    /\ nrun' = [nrun EXCEPT !.pc = "again"]
    /\ UNCHANGED <<rawNumber, nresult, nexport>>
    /\ UNCHANGED notNumber

\* csv_to_xlsx.js, the 'data' handler: "Convert to 962xxxxxxxxx format"
PhoneNumber(str) ==
    LET phoneNumber == FormattedNumber(str)
    IN  IF Len(phoneNumber) > 0 /\ Head(phoneNumber) = "0"
        THEN Prefix962 \o Substring1(phoneNumber)
        ELSE IF ~StartsWith962(phoneNumber) THEN Prefix962 \o phoneNumber
        ELSE phoneNumber

\* convertToXLSX reads the master-file row of the number (written for a
\* registered number, with the number as it was given) and pushes its
\* phone_number; a row without a number is skipped
ConvertRow ==
    /\ nrun.pc \in {"returned", "again"}
    /\ nresult.status = "success" /\ nresult.is_registered
    /\ ~nexport.done
    /\ Len(rawNumber) > 0
    /\ nexport' = [done |-> TRUE, phone_number |-> PhoneNumber(rawNumber)]
    /\ UNCHANGED <<rawNumber, nrun, nresult, nagain>>
    /\ UNCHANGED notNumber

NumberNext ==
    \/ IdStart
    \/ \E reg \in BOOLEAN : IdCallResolves(reg)
    \/ \E ban \in BOOLEAN : IdCallRejects(ban)
    \/ \E withSuffix \in BOOLEAN : IdAgain(withSuffix)
    \/ ConvertRow

\* ======================================================================
\* Part VI: processNumber of OptimizedWhatsAppValidator on one item
\* (src/multi_whatsapp_optimized.js 210-273): the while loop over retries,
\* with the delay armed before every further attempt recorded.
\* ======================================================================

\* error.message of a rejected isRegisteredUser call
ErrorMessages == {"timeout", "evaluation failed"}

\* the session object handed to processNumber
NewPSession == [checked |-> 0, verified |-> 0, errors |-> 0, lastError |-> "none"]

\* await this.delay(100 * retries)
RetryDelay(retries) == RetryDelayMs * retries

RetryInit ==
    /\ popt \in [maxRetries : 0..MaxRetries]
    /\ prun = [pc |-> "start", retries |-> 0]
    /\ pwaits = <<>>
    /\ psess = NewPSession
    /\ presult = "none"

\* let retries = 0; while (retries < this.options.maxRetries): the first
\* attempt, or no attempt at all and processNumber returns undefined
PEnter ==
    /\ prun.pc = "start"
    /\ IF 0 < popt.maxRetries
       THEN prun' = [prun EXCEPT !.pc = "call"] /\ UNCHANGED presult
       ELSE prun' = [prun EXCEPT !.pc = "returned"] /\ presult' = "undefined"
    /\ UNCHANGED <<popt, pwaits, psess>>
    /\ UNCHANGED notRetry

\* isRegisteredUser answers
PCallResolves(reg) ==
    /\ prun.pc = "call"
    /\ psess' = [psess EXCEPT !.checked = @ + 1,
                              !.verified = IF reg THEN @ + 1 ELSE @]
    /\ presult' = "success"
    /\ prun' = [prun EXCEPT !.pc = "returned"]
    /\ UNCHANGED <<popt, pwaits>>
    /\ UNCHANGED notRetry

\* isRegisteredUser rejects: retries++, then the error result or the retry delay
PCallRejects(msg) ==
    /\ prun.pc = "call"
    /\ LET r == prun.retries + 1
       IN  IF r >= popt.maxRetries
           THEN /\ psess' = [psess EXCEPT !.lastError = msg, !.errors = @ + 1]
                /\ presult' = "error"
                /\ prun' = [pc |-> "returned", retries |-> r]
                /\ UNCHANGED pwaits
           ELSE /\ psess' = [psess EXCEPT !.lastError = msg]
                /\ pwaits' = Append(pwaits, RetryDelay(r))
                /\ prun' = [pc |-> "delay", retries |-> r]
                /\ UNCHANGED presult
    /\ UNCHANGED popt
    /\ UNCHANGED notRetry

\* the retry delay is over: the while test holds (the catch block returned
\* otherwise) and the next attempt is made
PDelayDone ==
    /\ prun.pc = "delay"
    /\ prun' = [prun EXCEPT !.pc = "call"]
    /\ UNCHANGED <<popt, pwaits, psess, presult>>
    /\ UNCHANGED notRetry

RetryNext ==
    \/ PEnter
    \/ \E reg \in BOOLEAN : PCallResolves(reg)
    \/ \E msg \in ErrorMessages : PCallRejects(msg)
    \/ PDelayDone

\* ======================================================================
\* Part VII: distributeWork(array, chunks) (src/unnamed/part_003 345-356,
\* the same in src/unnamed/part_002 250-261).  Arrays are sequences; index k
\* of the JavaScript array is index k + 1 of the sequence.
\* ======================================================================

\* array.slice(start, end) for 0 <= start and 0 <= end <= array.length
Slice(array, start, end) ==
    IF start >= end THEN <<>> ELSE SubSeq(array, start + 1, end)

\* the mutant of ChunkSize: rounded down
ChunkSizeFloor(len, chunks) == len \div chunks

\* const chunkSize = Math.ceil(array.length / chunks)
ChunkSize(len, chunks) == CeilDiv(len, chunks)

\* the for loop: result.push(array.slice(start, end)) for i = 0 .. chunks - 1
DistributeWorkOf(array, chunks) ==
    LET chunkSize == ChunkSize(Len(array), chunks)
    IN  [c \in 1 .. chunks |->
            LET start == (c - 1) * chunkSize
                end   == Min(start + chunkSize, Len(array))
            IN  Slice(array, start, end)]

\* the arrays handed to distributeWork: rows told apart by their place, and
\* rows with equal content
ArrayInputs ==
    { [i \in 1..n |-> i] : n \in 0..MaxArray } \cup
    UNION { [1..n -> {0, 1}] : n \in 0..MaxArray }

DistributeInit ==
    /\ dwarg \in [array : ArrayInputs, chunks : 1..MaxChunks]
    /\ dwrun = "start"
    /\ dwres = <<>>

Distribute ==
    /\ dwrun = "start"
    /\ dwres' = DistributeWorkOf(dwarg.array, dwarg.chunks)
    /\ dwrun' = "returned"
    /\ UNCHANGED dwarg
    /\ UNCHANGED notDistribute

DistributeNext == Distribute

\* ======================================================================
\* Part VIII: MultiWhatsAppValidator.validateBatch (src/unnamed/part_002
\* 137-248): one validateSessionChunk per session, each collecting the
\* results of its chunk in a local array; Promise.all and flat() gather them.
\* ======================================================================

MultiSessions == 0 .. mopt.sessions - 1

\* the session object after initializeSession, with the frame of its
\* validateSessionChunk call: numbers (chunk), i, results, the await it is at
NewMSession ==
    [pc |-> "ready", chunk |-> <<>>, i |-> 0, results |-> <<>>,
     checked |-> 0, verified |-> 0, errors |-> 0]

\* the arrays the promises of the sessions resolved with, in session order
RECURSIVE ChunkResultsFrom(_, _)
ChunkResultsFrom(ss, s) ==
    IF s \notin DOMAIN ss THEN <<>>
    ELSE (IF Len(ss[s].chunk) > 0 THEN <<ss[s].results>> ELSE <<>>)
         \o ChunkResultsFrom(ss, s + 1)

\* array.flat()
RECURSIVE FlatOf(_)
FlatOf(arrays) == IF Len(arrays) = 0 THEN <<>> ELSE Head(arrays) \o FlatOf(Tail(arrays))

\* the mutant of GatherResults: the chunks' results in reverse session order
RECURSIVE Reversed(_)
Reversed(q) == IF Len(q) = 0 THEN <<>> ELSE Append(Reversed(Tail(q)), Head(q))
GatherResultsReversed(ss) == FlatOf(Reversed(ChunkResultsFrom(ss, 0)))

\* const results = await Promise.all(promises); this.results = results.flat()
GatherResults(ss) == FlatOf(ChunkResultsFrom(ss, 0))

\* validateSessionChunk after validateNumber returned result: push, count,
\* then the delay, or the end of the chunk
MRecord(sr, result) ==
    LET r == [sr EXCEPT !.results = Append(@, result), !.checked = @ + 1,
                        !.verified = IF result.is_registered THEN @ + 1 ELSE @]
    IN  IF r.i < Len(r.chunk) - 1
        THEN [r EXCEPT !.pc = "delay"]
        ELSE [r EXCEPT !.i = @ + 1, !.pc = "done"]

\* the item validateSessionChunk is at
MCurrentItem(sr) == sr.chunk[sr.i + 1]

MultiInit ==
    /\ mopt \in [sessions : 1..MaxPool, batchSize : 1..MaxBatchSize]
    /\ mnumbers \in InputLists
    /\ mrun = "start"
    /\ msess = [s \in MultiSessions |-> NewMSession]
    /\ mresults = <<>>
    /\ mstats = [total |-> 0, checked |-> 0, verified |-> 0, errors |-> 0]

\* validateBatch up to "await Promise.all(promises)": every session with a
\* non-empty chunk runs to the isRegisteredUser call of its first item
MValidateBatch ==
    /\ mrun = "start"
    /\ LET chunks == DistributeWorkOf(mnumbers, mopt.sessions)
       IN  msess' = [s \in MultiSessions |->
                        IF Len(chunks[s + 1]) > 0
                        THEN [msess[s] EXCEPT !.chunk = chunks[s + 1], !.pc = "call"]
                        ELSE msess[s]]
    /\ mstats' = [mstats EXCEPT !.total = Len(mnumbers)]
    /\ mrun' = "running"
    /\ UNCHANGED <<mopt, mnumbers, mresults>>
    /\ UNCHANGED notMulti

\* isRegisteredUser answers: a registered number goes on to getProfilePicUrl,
\* an unregistered one yields its success result
MCallResolves(s, reg) ==
    /\ mrun = "running"
    /\ msess[s].pc = "call"
    /\ msess' = [msess EXCEPT ![s] =
            IF reg THEN [@ EXCEPT !.pc = "pic"]
            ELSE MRecord(@, [item |-> MCurrentItem(@), is_registered |-> FALSE,
                             has_profile_pic |-> FALSE, status |-> "success",
                             session_id |-> s])]
    /\ UNCHANGED <<mopt, mnumbers, mrun, mresults, mstats>>
    /\ UNCHANGED notMulti

\* getProfilePicUrl settles (a rejection is caught: profilePic = false)
MPicSettles(s, pic) ==
    /\ mrun = "running"
    /\ msess[s].pc = "pic"
    /\ msess' = [msess EXCEPT ![s] =
            MRecord(@, [item |-> MCurrentItem(@), is_registered |-> TRUE,
                        has_profile_pic |-> pic, status |-> "success",
                        session_id |-> s])]
    /\ UNCHANGED <<mopt, mnumbers, mrun, mresults, mstats>>
    /\ UNCHANGED notMulti

\* isRegisteredUser rejects: the catch block's error result
MCallRejects(s) ==
    /\ mrun = "running"
    /\ msess[s].pc = "call"
    /\ msess' = [msess EXCEPT ![s] =
            MRecord([@ EXCEPT !.errors = @ + 1],
                    [item |-> MCurrentItem(@), is_registered |-> FALSE,
                     has_profile_pic |-> FALSE, status |-> "error",
                     session_id |-> s])]
    /\ UNCHANGED <<mopt, mnumbers, mrun, mresults, mstats>>
    /\ UNCHANGED notMulti

\* "await this.delay(this.options.checkDelay)" is over: the 5-second break, or
\* the next item's call
MDelayDone(s) ==
    /\ mrun = "running"
    /\ msess[s].pc = "delay"
    /\ msess' = [msess EXCEPT ![s] =
            IF (@.i + 1) % mopt.batchSize = 0 /\ @.i < Len(@.chunk) - 1
            THEN [@ EXCEPT !.pc = "break"]
            ELSE [@ EXCEPT !.i = @ + 1, !.pc = "call"]]
    /\ UNCHANGED <<mopt, mnumbers, mrun, mresults, mstats>>
    /\ UNCHANGED notMulti

\* "await this.delay(5000)" is over
MBreakDone(s) ==
    /\ mrun = "running"
    /\ msess[s].pc = "break"
    /\ msess' = [msess EXCEPT ![s] = [@ EXCEPT !.i = @ + 1, !.pc = "call"]]
    /\ UNCHANGED <<mopt, mnumbers, mrun, mresults, mstats>>
    /\ UNCHANGED notMulti

\* every validateSessionChunk returned: Promise.all resolves, flat, statistics
MValidateBatchReturn ==
    /\ mrun = "running"
    /\ \A s \in MultiSessions : msess[s].pc \in {"ready", "done"}
    /\ LET res == GatherResults(msess)
       IN  /\ mresults' = res
           /\ mstats' = [mstats EXCEPT
                  !.checked = Len(res),
                  !.verified = Cardinality({k \in 1..Len(res) : res[k].is_registered}),
                  !.errors = Cardinality({k \in 1..Len(res) : res[k].status = "error"})]
    /\ mrun' = "returned"
    /\ UNCHANGED <<mopt, mnumbers, msess>>
    /\ UNCHANGED notMulti

MultiNext ==
    \/ MValidateBatch
    \/ \E s \in MultiSessions, reg \in BOOLEAN : MCallResolves(s, reg)
    \/ \E s \in MultiSessions, pic \in BOOLEAN : MPicSettles(s, pic)
    \/ \E s \in MultiSessions : MCallRejects(s)
    \/ \E s \in MultiSessions : MDelayDone(s)
    \/ \E s \in MultiSessions : MBreakDone(s)
    \/ MValidateBatchReturn

\* ======================================================================
\* Part IX: the master file of SafeWhatsAppValidator (src/unnamed/part_003
\* 296-343, 430-505): validateNumber appends every registered number that is
\* not in this.verifiedNumbers, and adds it to the set after the write.
\* ======================================================================

\* the numbers of the input and of the master file
MasterNumbers == {"0791234567", "0771234567"}

MasterSessions == 0 .. fsessions - 1

\* a session's validateSessionChunk frame
NewFSession == [pc |-> "ready", chunk |-> <<>>, i |-> 0]

FCurrentNumber(sr) == sr.chunk[sr.i + 1]

\* validateNumber returned (or threw into the loop's next round): the waits
\* before the next item, or the end of the chunk
FAdvance(sr) ==
    IF sr.i < Len(sr.chunk) - 1 THEN [sr EXCEPT !.pc = "delay"]
    ELSE [sr EXCEPT !.i = @ + 1, !.pc = "done"]

\* the state after initialize(): initializeMasterFile loaded the number of
\* every row of the file into verifiedNumbers
MasterInit ==
    /\ fnumbers \in UNION { [1..n -> MasterNumbers] : n \in 0..MaxItems }
    /\ fsessions \in 1..MaxSessions
    /\ frun = "start"
    /\ fsess = [s \in MasterSessions |-> NewFSession]
    /\ masterFile \in { <<>> } \cup { <<n>> : n \in MasterNumbers }
    /\ verifiedNumbers = { masterFile[k] : k \in 1..Len(masterFile) }

\* validateBatch: the chunks are handed out and every session with a
\* non-empty chunk runs to its first isRegisteredUser call
FValidateBatch ==
    /\ frun = "start"
    /\ LET chunks == DistributeWorkOf(fnumbers, fsessions)
       IN  fsess' = [s \in MasterSessions |->
                        IF Len(chunks[s + 1]) > 0
                        THEN [fsess[s] EXCEPT !.chunk = chunks[s + 1], !.pc = "call"]
                        ELSE fsess[s]]
    /\ frun' = "running"
    /\ UNCHANGED <<fnumbers, fsessions, verifiedNumbers, masterFile>>
    /\ UNCHANGED notMaster

\* appendVerifiedNumberImmediately's guard, read when it is entered
NeedsAppend(reg, number) == reg /\ number \notin verifiedNumbers

\* isRegisteredUser answers; for a registered number
\* appendVerifiedNumberImmediately runs to "await csvWriter.writeRecords"
FCallResolves(s, reg) ==
    /\ frun = "running"
    /\ fsess[s].pc = "call"
    /\ fsess' = [fsess EXCEPT ![s] =
            IF NeedsAppend(reg, FCurrentNumber(@)) THEN [@ EXCEPT !.pc = "write"]
            ELSE FAdvance(@)]
    /\ UNCHANGED <<fnumbers, fsessions, frun, verifiedNumbers, masterFile>>
    /\ UNCHANGED notMaster

\* writeRecords resolves: the row is in the file, the number joins the set
FWriteDone(s) ==
    /\ frun = "running"
    /\ fsess[s].pc = "write"
    /\ masterFile' = Append(masterFile, FCurrentNumber(fsess[s]))
    /\ verifiedNumbers' = verifiedNumbers \cup {FCurrentNumber(fsess[s])}
    /\ fsess' = [fsess EXCEPT ![s] = FAdvance(@)]
    /\ UNCHANGED <<fnumbers, fsessions, frun>>
    /\ UNCHANGED notMaster

\* isRegisteredUser rejects: an error result, or with a "ban"/"block" message
\* the error leaves validateSessionChunk
FCallRejects(s, ban) ==
    /\ frun = "running"
    /\ fsess[s].pc = "call"
    /\ fsess' = [fsess EXCEPT ![s] =
            IF ban THEN [@ EXCEPT !.pc = "thrown"] ELSE FAdvance(@)]
    /\ UNCHANGED <<fnumbers, fsessions, frun, verifiedNumbers, masterFile>>
    /\ UNCHANGED notMaster

\* the rate-limit wait, the jittered delay and the breaks before the next item
FDelayDone(s) ==
    /\ frun = "running"
    /\ fsess[s].pc = "delay"
    /\ fsess' = [fsess EXCEPT ![s] = [@ EXCEPT !.i = @ + 1, !.pc = "call"]]
    /\ UNCHANGED <<fnumbers, fsessions, frun, verifiedNumbers, masterFile>>
    /\ UNCHANGED notMaster

MasterNext ==
    \/ FValidateBatch
    \/ \E s \in MasterSessions, reg \in BOOLEAN : FCallResolves(s, reg)
    \/ \E s \in MasterSessions : FWriteDone(s)
    \/ \E s \in MasterSessions, ban \in BOOLEAN : FCallRejects(s, ban)
    \/ \E s \in MasterSessions : FDelayDone(s)

\* ======================================================================
\* Part X: WhatsAppAggregator (src/aggregator.js 6-107): loadExistingNumbers
\* reads the master file into this.verifiedNumbers; aggregateResults adds the
\* registered numbers of a results file that the set does not hold yet and
\* appends their rows to the master file.
\* ======================================================================

\* the numbers of the results files, and the values of their is_registered
\* column as csv-parser delivers them
AggNumbers == {"0791234567", "0771234567"}
RegValues == {"true", "false", "1"}
ResultRows == [number : AggNumbers, is_registered : RegValues]
ResultFiles == UNION { [1..n -> ResultRows] : n \in 0..MaxRows }

NoAggregation ==
    [file |-> <<>>, added |-> <<>>, totalProcessed |-> 0, newlyAdded |-> 0,
     totalVerified |-> 0, prevFile |-> <<>>, prevTotal |-> 0, first |-> TRUE]

\* row.is_registered === true || === 'true' || === '1'
IsRegisteredRow(row) == row.is_registered \in {"true", "1"}

\* the mutant of NotYetVerified: the set is not consulted
NotYetVerifiedAlways(set, number) == TRUE

\* !this.verifiedNumbers.has(row.number)
NotYetVerified(set, number) == number \notin set

\* the 'data' handler over the rows of the file, in order: the entries pushed
\* to newVerifiedNumbers and the set afterwards
RECURSIVE OnData(_, _, _)
OnData(rows, added, set) ==
    IF Len(rows) = 0 THEN [added |-> added, set |-> set]
    ELSE LET row == Head(rows)
         IN  IF IsRegisteredRow(row) /\ NotYetVerified(set, row.number)
             THEN OnData(Tail(rows), Append(added, row.number), set \cup {row.number})
             ELSE OnData(Tail(rows), added, set)

\* the numbers of the rows of a master file (loadExistingNumbers' 'data')
NumbersOfFile(file) == { file[k] : k \in 1..Len(file) }

\* new WhatsAppAggregator() beside a master file of at most one row
AggregatorInit ==
    /\ aggMasterFile \in { <<>> } \cup { <<n>> : n \in AggNumbers }
    /\ aggVerifiedNumbers = {}
    /\ aggLast = NoAggregation
    /\ aggRuns = 0
    /\ aggLoaded = FALSE

\* aggregateResults(file), called as every caller does after
\* loadExistingNumbers: every row through the 'data' handler, then 'end': the
\* new entries appended to the master file and the counts resolved
AggregateResults(file) ==
    /\ aggRuns >= 0
    /\ aggLoaded
    /\ aggRuns < MaxAggregations
    /\ LET out == OnData(file, <<>>, aggVerifiedNumbers)
       IN  /\ aggVerifiedNumbers' = out.set
           /\ aggMasterFile' = aggMasterFile \o out.added
           /\ aggLast' = [file |-> file, added |-> out.added,
                          totalProcessed |-> Len(file),
                          newlyAdded |-> Len(out.added),
                          totalVerified |-> Cardinality(out.set),
                          prevFile |-> aggLast.file,
                          prevTotal |-> aggLast.totalVerified,
                          first |-> aggRuns = 0]
    /\ aggRuns' = aggRuns + 1
    /\ UNCHANGED aggLoaded
    /\ UNCHANGED notAggregator

\* loadExistingNumbers(): the number of every row of the master file
LoadExistingNumbers ==
    /\ aggRuns >= 0
    /\ ~aggLoaded
    /\ aggVerifiedNumbers' = aggVerifiedNumbers \cup NumbersOfFile(aggMasterFile)
    /\ aggLoaded' = TRUE
    /\ UNCHANGED <<aggMasterFile, aggLast, aggRuns>>
    /\ UNCHANGED notAggregator

\* a later run of the program: new WhatsAppAggregator()
NewAggregator ==
    /\ aggRuns >= 0
    /\ aggLoaded
    /\ aggVerifiedNumbers' = {}
    /\ aggLoaded' = FALSE
    /\ UNCHANGED <<aggMasterFile, aggLast, aggRuns>>
    /\ UNCHANGED notAggregator

AggregatorNext ==
    \/ \E file \in ResultFiles : AggregateResults(file)
    \/ LoadExistingNumbers
    \/ NewAggregator

\* ------------------------------------------------------------ specifications

\* the other validator is not run
SafeOff ==
    /\ sopt = [sessions |-> 1, maxChecksPerHour |-> 1, batchSize |-> 1,
               checkDelay |-> DefaultCheckDelay, breakDuration |-> DefaultBreakDuration]
    /\ snumbers = <<>>
    /\ srun = [vb |-> "start", main |-> "off"]
    /\ now = 0
    /\ ticks = 0
    /\ ssess = [s \in {0} |-> NewSession(s)]
    /\ sresults = <<>>
    /\ sstats = [total |-> 0, checked |-> 0, verified |-> 0, errors |-> 0]
    /\ ssaved = [written |-> FALSE, rows |-> <<>>]
    /\ sadmitted = [s \in {0} |-> <<>>]

OptOff ==
    /\ options = [sessions |-> 1, concurrentPerSession |-> 1, maxRetries |-> DefaultMaxRetries]
    /\ numbers = <<>>
    /\ vbpc = "off"
    /\ workQueue = <<>>
    /\ processing = {}
    /\ results = <<>>
    /\ stats = [total |-> 0, processed |-> 0, verified |-> 0, errors |-> 0]
    /\ sess = [s \in {0} |-> [checked |-> 0, verified |-> 0, errors |-> 0, lastError |-> FALSE]]
    /\ concurrentTasks = [s \in {0} |-> <<>>]
    /\ wpc = [s \in {0} |-> "new"]
    /\ sweepIdx = [s \in {0} |-> 0]
    /\ taken = [s \in {0} |-> 0]

BasicOff ==
    /\ cfg = [batchSize |-> MainBatchSize, viaMain |-> FALSE]
    /\ vnumbers = <<>>
    /\ vrun = [pc |-> "off", i |-> 0, startIndex |-> 0, sinkBase |-> 0, checkedBase |-> 0]
    /\ vresults = <<>>
    /\ progress = [lastIndex |-> 0, totalChecked |-> 0]
    /\ progressFile = [exists |-> FALSE, lastIndex |-> 0, totalChecked |-> 0]
    /\ sinkFile = <<>>
    /\ outputFile = [written |-> FALSE, rows |-> <<>>]
    /\ report = [written |-> FALSE, total |-> 0, registered |-> 0, errors |-> 0]
    /\ vchecked = <<>>

StartupOff ==
    /\ iopt = [sessions |-> 1, variant |-> "safe"]
    /\ irun = [pc |-> "off", i |-> 0]
    /\ isess = [s \in {0} |-> IdleSession]

NumberOff ==
    /\ rawNumber = <<>>
    /\ nrun = [pc |-> "off", whatsappId |-> <<>>]
    /\ nresult = NoResult
    /\ nagain = <<>>
    /\ nexport = NoExport

RetryOff ==
    /\ popt = [maxRetries |-> DefaultMaxRetries]
    /\ prun = [pc |-> "off", retries |-> 0]
    /\ pwaits = <<>>
    /\ psess = NewPSession
    /\ presult = "none"

DistributeOff ==
    /\ dwarg = [array |-> <<>>, chunks |-> 1]
    /\ dwrun = "off"
    /\ dwres = <<>>

MultiOff ==
    /\ mopt = [sessions |-> 1, batchSize |-> 1]
    /\ mnumbers = <<>>
    /\ mrun = "off"
    /\ msess = [s \in {0} |-> NewMSession]
    /\ mresults = <<>>
    /\ mstats = [total |-> 0, checked |-> 0, verified |-> 0, errors |-> 0]

MasterOff ==
    /\ fnumbers = <<>>
    /\ fsessions = 1
    /\ frun = "off"
    /\ fsess = [s \in {0} |-> NewFSession]
    /\ verifiedNumbers = {}
    /\ masterFile = <<>>

AggregatorOff ==
    /\ aggVerifiedNumbers = {}
    /\ aggMasterFile = <<>>
    /\ aggLast = NoAggregation
    /\ aggRuns = -1
    /\ aggLoaded = FALSE

\* OptimizedWhatsAppValidator
Init == OptInit /\ SafeOff /\ BasicOff /\ StartupOff /\ NumberOff /\ RetryOff /\ DistributeOff /\ MultiOff /\ MasterOff /\ AggregatorOff
Next == OptNext
Spec == Init /\ [][Next]_vars

\* SafeWhatsAppValidator
InitSafe == SafeInit /\ OptOff /\ BasicOff /\ StartupOff /\ NumberOff /\ RetryOff /\ DistributeOff /\ MultiOff /\ MasterOff /\ AggregatorOff
SpecSafe == InitSafe /\ [][SafeNext]_vars

\* WhatsAppValidator
InitBasic == BasicInit /\ OptOff /\ SafeOff /\ StartupOff /\ NumberOff /\ RetryOff /\ DistributeOff /\ MultiOff /\ MasterOff /\ AggregatorOff
SpecBasic == InitBasic /\ [][BasicNext]_vars

\* initialize() of SafeWhatsAppValidator and of OptimizedWhatsAppValidator
InitStartup == StartupInit /\ OptOff /\ SafeOff /\ BasicOff /\ NumberOff /\ RetryOff /\ DistributeOff /\ MultiOff /\ MasterOff /\ AggregatorOff
SpecStartup == InitStartup /\ [][StartupNext]_vars

\* validateNumber on one number
InitNumber == NumberInit /\ OptOff /\ SafeOff /\ BasicOff /\ StartupOff /\ RetryOff /\ DistributeOff /\ MultiOff /\ MasterOff /\ AggregatorOff
SpecNumber == InitNumber /\ [][NumberNext]_vars

\* processNumber on one item
InitRetry == RetryInit /\ SafeOff /\ OptOff /\ BasicOff /\ StartupOff /\ NumberOff /\ DistributeOff /\ MultiOff /\ MasterOff /\ AggregatorOff
SpecRetry == InitRetry /\ [][RetryNext]_vars

\* distributeWork on one array
InitDistribute == DistributeInit /\ SafeOff /\ OptOff /\ BasicOff /\ StartupOff /\ NumberOff /\ RetryOff /\ MultiOff /\ MasterOff /\ AggregatorOff
SpecDistribute == InitDistribute /\ [][DistributeNext]_vars

\* MultiWhatsAppValidator
InitMulti == MultiInit /\ SafeOff /\ OptOff /\ BasicOff /\ StartupOff /\ NumberOff /\ RetryOff /\ DistributeOff /\ MasterOff /\ AggregatorOff
SpecMulti == InitMulti /\ [][MultiNext]_vars

\* SafeWhatsAppValidator's master file
InitMaster == MasterInit /\ SafeOff /\ OptOff /\ BasicOff /\ StartupOff /\ NumberOff /\ RetryOff /\ DistributeOff /\ MultiOff /\ AggregatorOff
SpecMaster == InitMaster /\ [][MasterNext]_vars

\* WhatsAppAggregator
InitAggregator == AggregatorInit /\ SafeOff /\ OptOff /\ BasicOff /\ StartupOff /\ NumberOff /\ RetryOff /\ DistributeOff /\ MultiOff /\ MasterOff
SpecAggregator == InitAggregator /\ [][AggregatorNext]_vars

\* one step of session s's worker
Worker(s) ==
    /\ s \in Sessions
    /\ RaceWake(s) \/ SweepStep(s) \/ IdleDone(s) \/ PauseDone(s) \/ FinalWait(s)

\* Timers fire and continuations run (the event loop never starves a ready
\* callback); nothing is assumed of the transport.
SpecWorkersFair ==
    /\ Spec
    /\ WF_vars(ValidateBatch) /\ WF_vars(ValidateBatchReturn)
    /\ \A s \in SessionIds : WF_vars(Worker(s))

\* ============================================================== properties

ResultsOf(i) == { k \in 1..Len(results) : results[k].item = i }
InFlight(s) == { i \in 1..Len(concurrentTasks[s]) : concurrentTasks[s][i].st # "done" }
Queued == { workQueue[k] : k \in 1..Len(workQueue) }
K == options.concurrentPerSession

\* C1: when validateBatch returns, this.results holds exactly one result for
\* every item of the input list (none missing, none twice).
C1_OneResultPerItem ==
    vbpc = "returned" =>
        /\ Len(results) = Len(numbers)
        /\ \A i \in 1..Len(numbers) : Cardinality(ResultsOf(i)) = 1

C1_Witness ==
    /\ vbpc = "returned"
    /\ Len(results) = MaxItems
    /\ \E a, b \in 1..Len(results) :
          /\ results[a].session_id # results[b].session_id
          /\ results[a].status = "error" /\ results[b].status = "success"

\* C2: validateBatch eventually returns, for every input list and every
\* maxRetries (0 included), when every transport call eventually settles: until
\* it has returned, some step that changes the state (a call settling, a worker
\* taking or sweeping a task, the return itself) is still to come, so the run
\* never reaches a state where the workers only poll.
C2_ReturnsOrProgresses == vbpc = "returned" \/ ENABLED <<Next>>_vars

\* C7: no two processNumber calls hold the same queue item, an item handed to a
\* call is no longer in the queue, and an item with a result is never handed out
\* again.
C7_NoSharedItem ==
    /\ \A s1 \in Sessions, s2 \in Sessions :
         \A i \in 1..Len(concurrentTasks[s1]), j \in 1..Len(concurrentTasks[s2]) :
            (s1 # s2 \/ i # j) => concurrentTasks[s1][i].item # concurrentTasks[s2][j].item
    /\ \A s \in Sessions : \A i \in 1..Len(concurrentTasks[s]) :
         /\ concurrentTasks[s][i].item \notin Queued
         /\ i \in InFlight(s) => ResultsOf(concurrentTasks[s][i].item) = {}
    /\ \A k \in 1..Len(results) : results[k].item \notin Queued

C7_Witness ==
    \E s1 \in Sessions, s2 \in Sessions :
        s1 # s2 /\ InFlight(s1) # {} /\ InFlight(s2) # {} /\ Len(workQueue) > 0

\* C8: a session worker never has more than concurrentPerSession checks
\* outstanding, so at most sessions x concurrentPerSession are in flight.
RECURSIVE InFlightUpTo(_)
InFlightUpTo(s) == IF s < 0 THEN 0 ELSE Cardinality(InFlight(s)) + InFlightUpTo(s - 1)

C8_BoundedInFlight ==
    /\ \A s \in Sessions : Len(concurrentTasks[s]) <= K
    /\ InFlightUpTo(options.sessions - 1) <= options.sessions * K

\* every slot of every worker is taken while items are still queued
C8_Witness ==
    /\ options.sessions = MaxSessions
    /\ InFlightUpTo(options.sessions - 1) = options.sessions * K
    /\ Len(workQueue) > 0

\* C9: with K > 1, once one of a worker's outstanding checks has settled while
\* the queue is non-empty, the worker takes a further item (unless the other
\* workers empty the queue first), whether or not its other checks ever settle.
SlotFreed(s, n) ==
    IF s \in Sessions
    THEN /\ K > 1
         /\ AnySettled(concurrentTasks[s])
         /\ InFlight(s) # {}
         /\ Len(workQueue) > 0
         /\ taken[s] = n
    ELSE FALSE

TookMoreThan(s, n) == IF s \in Sessions THEN taken[s] > n ELSE FALSE

C9_RefillsFreedSlot ==
    \A s \in SessionIds : \A n \in 0..MaxItems :
        SlotFreed(s, n) ~> (workQueue = <<>> \/ TookMoreThan(s, n))

\* a check taken at the start is still outstanding next to one taken on a refill
C9_Witness ==
    \E s \in Sessions :
        /\ K > 1
        /\ \E i \in InFlight(s), j \in InFlight(s) :
              /\ concurrentTasks[s][i].item <= options.sessions * K
              /\ concurrentTasks[s][j].item > options.sessions * K
              /\ concurrentTasks[s][i].calls = 1 /\ concurrentTasks[s][i].st = "calling"

\* C10: the check of an item is attempted at most maxRetries times; an item
\* still being attempted has no result; an item whose processNumber call has
\* returned has exactly one result: 'success' when an attempt succeeded (no
\* attempt follows it), 'error' when the retries were exhausted.
C10_BoundedRetries ==
    \A s \in Sessions : \A i \in 1..Len(concurrentTasks[s]) :
        LET t == concurrentTasks[s][i] IN
        /\ t.calls <= options.maxRetries
        /\ t.st # "done" => ResultsOf(t.item) = {}
        /\ t.st = "done" =>
              /\ Cardinality(ResultsOf(t.item)) = 1
              /\ \A k \in ResultsOf(t.item) :
                    results[k].status =
                        IF t.retries = options.maxRetries THEN "error" ELSE "success"

SResultsOf(i) == { k \in 1..Len(sresults) : sresults[k].item = i }
SResultsBy(s) == { k \in 1..Len(sresults) : sresults[k].session_id = s }
Started(s) == Len(ssess[s].chunk) > 0

\* C3: a ban/block error on one session does not abort the run: when the
\* process exits, validateBatch has returned, every session that was given a
\* chunk and was not banned has processed it to the end, and the results
\* accumulated by all sessions have been saved.
C3_BanDoesNotAbort ==
    srun.main = "exited" =>
        /\ srun.vb = "returned"
        /\ \A s \in SafeSessions :
              (Started(s) /\ ssess[s].pc # "failed") => ssess[s].pc = "done"
        /\ ssaved.written /\ ssaved.rows = sresults

\* C4: after a ban-signal error the session issues no further check, the
\* results it recorded before are kept, and the failing item has exactly one
\* result, with status 'error'.
C4_BanRecordedAsError ==
    \A s \in SafeSessions :
        ssess[s].pc = "failed" =>
            /\ Len(sadmitted[s]) = ssess[s].i + 1
            /\ \A j \in 1..ssess[s].i : Cardinality(SResultsOf(ssess[s].chunk[j])) = 1
            /\ Cardinality(SResultsOf(CurrentItem(ssess[s]))) = 1
            /\ \A k \in SResultsOf(CurrentItem(ssess[s])) : sresults[k].status = "error"

\* C5: no interval of HourMs milliseconds contains more than maxChecksPerHour
\* admitted checks of one session (an interval holding some admitted checks can
\* be taken to start at the first of them).
C5_RollingWindow ==
    \A s \in SafeSessions :
        \A a \in 1..Len(sadmitted[s]) :
            Cardinality({ b \in 1..Len(sadmitted[s]) :
                            /\ sadmitted[s][a] <= sadmitted[s][b]
                            /\ sadmitted[s][b] < sadmitted[s][a] + HourMs })
                <= sopt.maxChecksPerHour

\* C6: session.totalChecksThisHour never exceeds maxChecksPerHour, and the pause
\* skips nothing: the checks let through are those of the items up to the one
\* the session is at, in order, and a session that ends has had every item of
\* its chunk checked and recorded.
C6_LimitByPausing ==
    \A s \in SafeSessions :
        /\ ssess[s].totalChecksThisHour <= sopt.maxChecksPerHour
        /\ Len(sadmitted[s]) =
              IF ssess[s].pc \in {"call", "sleep", "failed"} THEN ssess[s].i + 1 ELSE ssess[s].i
        /\ ssess[s].pc = "done" =>
              /\ ssess[s].i = Len(ssess[s].chunk)
              /\ \A j \in 1..Len(ssess[s].chunk) :
                    Cardinality(SResultsOf(ssess[s].chunk[j])) = 1

\* a session that was paused at the limit has finished its chunk
C6_Witness ==
    \E s \in SafeSessions :
        /\ ssess[s].pc = "done"
        /\ ssess[s].rateWaits >= 1
        /\ ssess[s].totalChecksThisHour = sopt.maxChecksPerHour
        /\ Cardinality(SResultsBy(s)) = Len(ssess[s].chunk)

\* C11: the per-item check never throws to its caller: no validateNumber call of
\* a session has ended by rethrowing, and every transport failure counted by
\* the session (session.errors) was returned as a result with status 'error'.
C11_NeverThrows ==
    \A s \in SafeSessions :
        /\ ssess[s].pc # "failed"
        /\ ssess[s].errors =
              Cardinality({ k \in SResultsBy(s) : sresults[k].status = "error" })

\* C12: once a session is invalidated (its client emitted 'disconnected' and
\* session.ready is false), no further check is issued on that session.
C12_NoCheckOnInvalidSession ==
    [][\A s \in SafeSessions :
          ~ssess[s].ready => Len(sadmitted'[s]) = Len(sadmitted[s])]_vars

\* C13: when the run is interrupted (SIGINT) mid-run, every result completed so
\* far has been written to the results file before the process exits.
C13_InterruptFlushes ==
    srun.main = "interrupted" => ssaved.rows = sresults

\* validateBatch(list, 0) on a fresh validator: the results it returns
BatchResults(list) == [j \in 1..Len(list) |-> ValidateNumber(list[j])]

Row(r) == [number |-> r.number, is_registered |-> r.is_registered, status |-> r.status]
Returned == vrun.pc \in {"returned", "report", "aggregate", "done"}
RemainingSlice == SubSeq(vnumbers, vrun.startIndex + 1, Len(vnumbers))

\* C14: validateBatch(numbers, k) calls validateNumber for the items at index
\* k, k+1, ... only, never for one below k; the results it returns, and the
\* counts of the report made from them, are those of a run from index 0 on the
\* slice numbers[k..].
C14_ResumeMatchesSlice ==
    /\ \A j \in 1..Len(vchecked) : vchecked[j] = vrun.startIndex + j - 1
    /\ Returned =>
          /\ Len(vchecked) = Len(vnumbers) - vrun.startIndex
          /\ [j \in 1..Len(vresults) |-> Row(vresults[j])] = BatchResults(RemainingSlice)
          /\ report.written => report = GenerateReport(BatchResults(RemainingSlice))

C14_Witness ==
    /\ vrun.pc = "done"
    /\ progressFile.exists /\ vrun.startIndex = CheckpointEvery
    /\ Len(vnumbers) > vrun.startIndex
    /\ report.written /\ report.errors > 0 /\ report.registered > 0

SetMax(S) == CHOOSE x \in S : \A y \in S : y <= x

\* the rows this run has appended to the sink
Appended == SubSeq(sinkFile, vrun.sinkBase + 1, Len(sinkFile))
\* the multiples of CheckpointEvery the index after a completed item has reached
Reached == { c \in (vrun.startIndex + 1)..(vrun.startIndex + Len(vresults)) :
               c % CheckpointEvery = 0 }
\* those whose flush has completed
Flushed == IF vrun.pc = "flush" THEN Reached \ {vrun.i + 1} ELSE Reached

\* C15: each time the index after the completed item reaches a multiple of 10,
\* the checkpoint is persisted with lastIndex equal to that index and the
\* results not yet flushed are appended to the sink; whatever the start index,
\* the rows appended are the run's results up to the last flush, each once and
\* in input order.
C15_CheckpointEveryTen ==
    /\ Reached # {} =>
          /\ progressFile.exists
          /\ progressFile.lastIndex = SetMax(Reached)
    /\ Len(Appended) = IF Flushed = {} THEN 0 ELSE SetMax(Flushed) - vrun.startIndex
    /\ Appended = SubSeq(vresults, 1, Len(Appended))

\* a run started off a multiple of 10 has flushed a short first block and a
\* full second one
C15_Witness ==
    /\ vrun.startIndex % CheckpointEvery # 0
    /\ Len(Appended) > FlushCount
    /\ Len(vresults) > Len(Appended)

\* C16: at every point of a run driven by main, every item with index at or
\* above the run's start index and below the persisted lastIndex has its result
\* in the sink.
C16_CheckpointCoveredBySink ==
    (cfg.viaMain /\ progressFile.exists) =>
        \A idx \in vrun.startIndex .. progressFile.lastIndex - 1 :
            \E j \in 1..Len(sinkFile) : sinkFile[j].index = idx

\* C17: when a run driven by main has ended after processing its last item, the
\* progress file holds lastIndex equal to the list length and a totalChecked
\* that counts every item checked.
C17_FinalCheckpoint ==
    (vrun.pc = "done" /\ Len(vresults) > 0) =>
        /\ progressFile.exists
        /\ progressFile.lastIndex = Len(vnumbers)
        /\ progressFile.totalChecked = vrun.checkedBase + Len(vresults)

\* the rows of the durable results files
Durable == { sinkFile[j] : j \in 1..Len(sinkFile) } \cup
           { outputFile.rows[j] : j \in 1..Len(outputFile.rows) }

\* C18: when a run driven by main has completed, started at index 0 or resumed,
\* every result it produced is in a durable results file.
C18_AllResultsDurable ==
    vrun.pc = "done" => \A j \in 1..Len(vresults) : vresults[j] \in Durable

\* C19: initialize() does not wait forever for a session that never signals
\* ready: until it has returned or failed, some step that does not depend on a
\* client signalling ready (a timer, the client's startup settling) still
\* changes the state.
C19_ReadyWaitBounded ==
    irun.pc \in {"returned", "failed"} \/ ENABLED <<StartupSteps>>_vars

InStartup(s) == isess[s].st \in {"init", "poll"}

\* C20: sessions are started one after the other: no two sessions are in
\* startup at the same time, the startup of a session begins only after the
\* previous one is ready and the stagger delay that follows it is over, and no
\* stagger delay follows the last session.
C20_SequentialStartup ==
    /\ Cardinality({ s \in InitSessions : InStartup(s) }) <= 1
    /\ \A s \in InitSessions :
          (s > 0 /\ isess[s].st # "idle") =>
              /\ isess[s - 1].st = "up"
              /\ ~(irun.pc = "stagger" /\ irun.i = s - 1)
    /\ irun.pc = "stagger" => irun.i < iopt.sessions - 1


\* ---------------------------------------------------- properties of Part V

\* the raw number is a local mobile number, written without its trunk 0
IsBareLocal == rawNumber \in LocalNumbers
\* the raw number is a local mobile number, written with its trunk 0
IsTrunkLocal == Len(rawNumber) > 0 /\ Head(rawNumber) = "0" /\ Tail(rawNumber) \in LocalNumbers
\* the nine digits of the local number the raw number writes
LocalOf == IF IsTrunkLocal THEN Tail(rawNumber) ELSE rawNumber

\* C21: normalization is idempotent: computing the identifier of an identifier
\* (given with its @c.us suffix or as bare digits) yields the same identifier,
\* for every input string, the empty one and digit-less ones included.
C21_Idempotent ==
    nrun.pc = "again" => nagain = nresult.whatsapp_id

\* an input that takes the drop-and-prepend branch has been normalized twice
C21_Witness ==
    /\ nrun.pc = "again"
    /\ ~StartsWith962(FormattedNumber(rawNumber))
    /\ Len(FormattedNumber(rawNumber)) >= 2
    /\ nagain = nresult.whatsapp_id

\* C22: the leading-zero form and the bare form of one 9-digit local number
\* both get the identifier 962 followed by the nine local digits.
C22_LocalFormsAgree ==
    (nrun.pc = "call" /\ (IsBareLocal \/ IsTrunkLocal))
        => FormattedNumber(nrun.whatsappId) = Prefix962 \o LocalOf

\* C23: every record validateNumber returns, success or error, carries the
\* identifier computed from its number.
C23_ResultCarriesId ==
    nresult.status # "none" => nresult.whatsapp_id = WhatsappId(rawNumber)

\* ------------------------------------------- properties of Part I, continued

RegisteredResults == { k \in 1..Len(results) : results[k].is_registered }
ErrorResults == { k \in 1..Len(results) : results[k].status = "error" }
ResultsBy(s) == { k \in 1..Len(results) : results[k].session_id = s }

RECURSIVE SessVerifiedUpTo(_)
SessVerifiedUpTo(s) == IF s < 0 THEN 0 ELSE sess[s].verified + SessVerifiedUpTo(s - 1)
SessVerified == SessVerifiedUpTo(options.sessions - 1)

\* the step is an answer 'registered' of isRegisteredUser
AnsweredRegistered == \E s \in Sessions, i \in Slots : CallResolve(s, i, TRUE)

\* C24: whatever the transport answers, stats.verified counts the answers
\* 'registered' (each raises it by one, no other step changes it) and after
\* every step, so also when validateBatch has returned, it equals the number of
\* results with is_registered true and the sum of the sessions' verified counters.
C24_VerifiedCountsAgree ==
    [][ /\ stats'.verified = stats.verified + (IF AnsweredRegistered THEN 1 ELSE 0)
        /\ stats'.verified = Cardinality(RegisteredResults')
        /\ stats'.verified = SessVerified' ]_vars

\* a completed run in which two sessions each got an answer 'registered' and
\* another check was answered otherwise
C24_Witness ==
    /\ vbpc = "returned"
    /\ options.sessions = 2
    /\ \A s \in Sessions : sess[s].verified >= 1
    /\ stats.verified = 2
    /\ Len(results) = 3

\* C25: between the atomic steps of the scheduler the statistics agree with
\* this.results: processed = results.length, errors = number of 'error'
\* results, verified = number of is_registered results, and for every session
\* checked + errors = number of results carrying its session_id.
C25_StatsMatchResults ==
    /\ stats.processed = Len(results)
    /\ stats.errors = Cardinality(ErrorResults)
    /\ stats.verified = Cardinality(RegisteredResults)
    /\ \A s \in Sessions : sess[s].checked + sess[s].errors = Cardinality(ResultsBy(s))

\* checks are still in flight, and both a success and an error were recorded
C25_Witness ==
    /\ vbpc = "running"
    /\ \E s \in Sessions : InFlight(s) # {}
    /\ ErrorResults # {}
    /\ RegisteredResults # {}
    /\ \E s \in Sessions : sess[s].checked >= 1 /\ sess[s].errors >= 1

\* the step is a settled check of session s: an answer or a rejection of its
\* isRegisteredUser call
CheckOn(s) ==
    \/ \E i \in Slots, reg \in BOOLEAN : CallResolve(s, i, reg)
    \/ \E i \in Slots : CallReject(s, i)

Waiting(s) == ssess[s].pc \in {"ratewait", "sleep"}

\* the next step of session o's driver can be taken: the transport can answer
\* its call, and a wait of its own that is over can end
CanStep(o) ==
    /\ ssess[o].pc = "call" =>
          /\ ENABLED SafeCallResolve(o, TRUE)
          /\ ENABLED SafeCallReject(o)
    /\ (ssess[o].pc = "sleep" /\ now >= ssess[o].wakeAt) => ENABLED SafeWake(o)
    /\ (ssess[o].pc = "ratewait" /\ now >= ssess[o].wakeAt) => ENABLED SafeRateWake(o)

C28_DestroyedBeforeExit ==
    (srun.main = "interrupted" \/ (srun.main = "exited" /\ srun.vb = "rejected"))
        => \A s \in SafeSessions : ssess[s].destroyed

\* the step records the result of a check of session s
Recorded(s) == ssess[s].pc = "call" /\ ssess'[s].checked = ssess[s].checked + 1

RestBreakBegins(s) ==
    /\ ssess'[s].pc = "sleep" /\ ssess'[s].stage = "extended"
    /\ ~(ssess[s].pc = "sleep" /\ ssess[s].stage = "extended")

\* the step ends the inter-check delay of session s
DelayEnds(s) ==
    /\ ssess[s].pc = "sleep" /\ ssess[s].stage = "break"
    /\ ~(ssess'[s].pc = "sleep" /\ ssess'[s].stage = "break")

C32_ExponentialBackoff ==
    \A k \in 2 .. Len(pwaits) : pwaits[k] = 2 * pwaits[k - 1]

\* -------------------------------------------------- properties of Part VII

RECURSIVE Flat(_)
Flat(chunks) == IF Len(chunks) = 0 THEN <<>> ELSE Head(chunks) \o Flat(Tail(chunks))

\* C33: distributeWork(array, n) returns n contiguous chunks whose
\* concatenation in order is the array (every item is in exactly one chunk),
\* and no chunk has more than ceil(length / n) items.
C33_DistributeWorkPartitions ==
    dwrun = "returned" =>
        /\ Len(dwres) = dwarg.chunks
        /\ Flat(dwres) = dwarg.array
        /\ \A c \in 1 .. Len(dwres) :
              Len(dwres[c]) * dwarg.chunks < Len(dwarg.array) + dwarg.chunks

\* five items for four sessions: chunks of 2, 2, 1 and an empty fourth chunk
\* whose start lies beyond the array
C33_Witness ==
    /\ dwrun = "returned"
    /\ dwarg.array = <<1, 2, 3, 4, 5>> /\ dwarg.chunks = 4
    /\ dwres = << <<1, 2>>, <<3, 4>>, <<5>>, <<>> >>

\* ------------------------------------------------- properties of Part VIII

\* C34: when validateBatch of MultiWhatsAppValidator has returned, this.results
\* holds one result per input item, in input order, however the sessions'
\* checks interleaved.
C34_ResultsInInputOrder ==
    mrun = "returned" =>
        /\ Len(mresults) = Len(mnumbers)
        /\ \A i \in 1 .. Len(mresults) : mresults[i].item = mnumbers[i]

\* a returned run of three items over two sessions, with an error, a
\* registered and an unregistered number among the results
C34_Witness ==
    /\ mrun = "returned"
    /\ mopt.sessions = 2
    /\ Len(mresults) = 3
    /\ mresults[1].status = "error"
    /\ mresults[2].is_registered
    /\ mresults[3].session_id = 1 /\ mresults[3].status = "success"
        /\ ~mresults[3].is_registered

\* --------------------------------------------------- properties of Part IX

\* the rows of the master file appended since initialize()
RowsOf(number) == {k \in 1 .. Len(masterFile) : masterFile[k] = number}

\* C35: the master file never holds the same number twice, whatever the
\* interleaving of the sessions' checks: at most one row per number, and no
\* new row for a number that was loaded from the file.
C35_NoDuplicateRows ==
    \A number \in MasterNumbers : Cardinality(RowsOf(number)) <= 1


\* ---------------------------------------------------- properties of Part X

\* C36: aggregateResults is deduplicating and idempotent: over any sequence
\* of aggregations a number gets at most one row in the master file and is
\* counted as newly added at most once, also when it occurs several times in
\* one file; only rows whose is_registered is true are added; aggregating the
\* file of the previous call again adds nothing (newlyAdded = 0, totalVerified
\* unchanged).
C36_DeduplicatingIdempotent ==
    /\ \A j, k \in 1 .. Len(aggMasterFile) :
            aggMasterFile[j] = aggMasterFile[k] => j = k
    /\ aggLast.newlyAdded = Len(aggLast.added)
    /\ \A j \in 1 .. Len(aggLast.added) :
            \E k \in 1 .. Len(aggLast.file) :
                /\ aggLast.file[k].number = aggLast.added[j]
                /\ aggLast.file[k].is_registered \in {"true", "1"}
    /\ (~aggLast.first /\ aggLast.file = aggLast.prevFile) =>
            /\ aggLast.newlyAdded = 0
            /\ aggLast.totalVerified = aggLast.prevTotal

\* the same file, holding a registered number twice and an unregistered one,
\* was aggregated twice in a row and the first time added a row
C36_Witness ==
    /\ aggRuns = 2
    /\ aggLast.file = aggLast.prevFile
    /\ Len(aggLast.file) = 2
    /\ aggLast.file[1] = aggLast.file[2]
    /\ aggLast.file[1].is_registered = "true"
    /\ aggLast.newlyAdded = 0
    /\ Len(aggMasterFile) = 2
    /\ aggLast.totalVerified = 2

\* ---------------------------------------- properties of Part I (continued)

\* the items shifted off the work queue so far
TakenItems == (1 .. Len(numbers)) \ Queued

\* C37: once validateBatch has filled the queue, at every step the items in
\* workQueue, the items in the processing set and the results recorded add up
\* to the number of input items, and the processing set holds exactly the
\* items taken from the queue that have no result yet.
C37_ItemsConserved ==
    vbpc # "start" =>
        /\ Len(workQueue) + Cardinality(processing) + Len(results) = Len(numbers)
        /\ processing = { numbers[i] : i \in { j \in TakenItems : ResultsOf(j) = {} } }

\* mid-run: one item queued, one in the processing set, one with its result
C37_Witness ==
    /\ vbpc = "running"
    /\ Len(workQueue) = 1
    /\ Cardinality(processing) = 1
    /\ Len(results) = 1
    /\ Len(numbers) = 3

\* ---------------------------------------- properties of Part V (continued)

\* C38: the 962 conversion of csv_to_xlsx.js gives every number (leading-zero,
\* bare or already prefixed) the key the validator checked: the exported
\* phone_number is the digits of the number's WhatsApp identifier.
C38_ExportMatchesChecked ==
    nexport.done => nexport.phone_number = FormattedNumber(nresult.whatsapp_id)
====
